---- MODULE Spec2Model ----
(***************************************************************************)
(* Model of the GitLab webhook embedding pipeline: the webhook controller  *)
(* (processWebhook, processPushEvent, processMergeRequestEvent), the       *)
(* GitLab adapter (getAllFiles), the embedding generator                   *)
(* (generateEmbeddings) and the PostgreSQL storage service                 *)
(* (saveEmbedding, saveEmbeddings, saveBatch, updateProjectMetadata,       *)
(* getProjectMetadata).                                                    *)
(*                                                                         *)
(* Every await of the code is an interleaving point between runs, so each  *)
(* awaited call that touches shared state is one action.  PostgreSQL is    *)
(* modelled at READ COMMITTED: the rows a transaction has written are      *)
(* private to it until COMMIT and written to the relation by COMMIT (row   *)
(* locks are held until COMMIT, so for any key the order of writes is the  *)
(* order of commits); outside a transaction each statement commits itself. *)
(***************************************************************************)
EXTENDS Integers, Sequences, FiniteSets, TLC

VARIABLES
  embeddings,   \* relation embeddings: set of rows, UNIQUE(project_id, file_path)
  batches,      \* relation batches: sequence of rows in insertion order
  projects,     \* relation projects: set of rows, PRIMARY KEY project_id
  dataType,     \* data_type reported for embeddings.embedding
  branchHead,   \* commit the source branch points to in the hosted repository
  clock,        \* value returned by new Date()
  faults,       \* number of failures of external calls so far
  pc,           \* per run: position in the handler
  event,        \* per run: the request body
  meta,         \* per run: local projectMetadata
  files,        \* per run: local files
  embs,         \* per run: local embeddings
  inTx,         \* per run: the saveEmbeddings client is inside BEGIN..COMMIT
  rowIdx,       \* per run: rows of embs upserted by the saveEmbeddings loop
  trace,        \* per run: calls issued so far, in order
  genIn,        \* input of the generateEmbeddings under test
  genOut,       \* result of the generateEmbeddings under test
  searchOut,    \* request and outcome of the latest search call
  schema,       \* tables, embedding column type, extension and indexes of the store
  par,          \* the batched loop under test: its index and the state of its calls
  chunkOut,     \* input and result of the chunkCodeFile under test
  langOut,      \* path and results of the detectLanguage calls under test
  auth,         \* WEBHOOK_SECRET, and per run the X-Gitlab-Token and the answer
  workdir       \* per run: state of the temporary directory of its clone

vars == <<embeddings, batches, projects, dataType, branchHead, clock, faults,
          pc, event, meta, files, embs, inTx, rowIdx, trace, genIn, genOut,
          searchOut, schema, par, chunkOut, langOut, auth, workdir>>

runVars == <<pc, event, meta, files, embs, inTx, rowIdx, trace>>
dbVars == <<embeddings, batches, projects>>
auxVars == <<genIn, genOut, searchOut, schema, par, chunkOut, langOut, auth>>
genVars == <<auxVars, workdir>>

-----------------------------------------------------------------------------
(* Bounds *)

MaxFaults == 1       \* failures of external calls injected in a behaviour
MaxGenFiles == 6     \* length of the file lists given to generateEmbeddings
MaxStoreRows == 2    \* length of the lists given to saveEmbeddings directly

\* Two requests in flight: the least number with which runs overlap.
Runs == {1, 2}

-----------------------------------------------------------------------------
(* Program constants *)

batchSize == 5
sizeCeiling == 100000
ZeroSha == "0000000000000000000000000000000000000000"

Null == [null |-> TRUE]

-----------------------------------------------------------------------------
(* The hosted repository (external): one project; commit c0 has an empty   *)
(* tree, c1 and c2 have files.  A path is the sequence of its              *)
(* dot-separated segments.  Of the timestamps of the code only those of    *)
(* the embedding rows (createdAt, updatedAt) are modelled.                 *)

Projects == {1}
Commits == {"c0", "c1", "c2"}
SourceBranch == "main"

\* A content is abstracted to what the code inspects: its length, whether it
\* has a null byte, its count of control characters; id tells texts apart.
Text(id) == [id |-> id, len |-> 50, nul |-> FALSE, ctrl |-> 0]
EmptyContent == [id |-> "", len |-> 0, nul |-> FALSE, ctrl |-> 0]
BinContent == [id |-> "BIN", len |-> 20, nul |-> TRUE, ctrl |-> 3]

PathA == <<"a", "py">>
PathB == <<"b", "bin">>
PathC == <<"c", "ts">>

RepoTree(commit) ==
  IF commit = "c0" THEN <<>>
  ELSE IF commit = "c1"
    THEN << [path |-> <<"src">>, type |-> "tree"],
            [path |-> PathA, type |-> "blob"],
            [path |-> PathB, type |-> "blob"],
            [path |-> PathC, type |-> "blob"] >>
    ELSE << [path |-> PathA, type |-> "blob"],
            [path |-> PathB, type |-> "blob"] >>

RepoContent(commit, path) ==
  IF path = PathB THEN BinContent
  ELSE IF path = PathA THEN (IF commit = "c1" THEN Text("A1") ELSE Text("A2"))
  ELSE Text("C1")

ResolveRef(ref) == IF ref \in Commits THEN ref ELSE branchHead

ProjectDetails(p) ==
  [name |-> "proj", description |-> "", web_url |-> "https://gitlab/proj",
   default_branch |-> "main"]

-----------------------------------------------------------------------------
(* GitLabService *)

LowerCase(s) ==
  CASE s = "PY" -> "py"
    [] s = "TS" -> "ts"
    [] s = "Constructor" -> "constructor"
    [] OTHER -> s

languageMap ==
  [ext \in {"js", "jsx", "ts", "tsx", "py", "rb", "java", "go", "php", "cs",
            "cpp", "c", "h", "hpp", "html", "css", "scss", "json", "md",
            "yml", "yaml", "sh", "bash", "sql", "swift", "kt", "rs"} |->
     CASE ext \in {"js", "jsx"} -> "javascript"
       [] ext \in {"ts", "tsx"} -> "typescript"
       [] ext = "py" -> "python"
       [] ext = "rb" -> "ruby"
       [] ext = "cs" -> "csharp"
       [] ext \in {"cpp", "hpp"} -> "cpp"
       [] ext \in {"c", "h"} -> "c"
       [] ext = "md" -> "markdown"
       [] ext \in {"yml", "yaml"} -> "yaml"
       [] ext \in {"sh", "bash"} -> "shell"
       [] ext = "kt" -> "kotlin"
       [] ext = "rs" -> "rust"
       [] OTHER -> ext]

\* what an object literal inherits from Object.prototype under a lower-case
\* name: the property read languageMap[name] finds these too. The values are
\* a function and an object; the strings stand for them.
ObjectPrototype ==
  [name \in {"constructor", "__proto__"} |->
     IF name = "constructor" THEN "[Function: Object]" ELSE "[Object: null prototype] {}"]

\* filePath.split('.').pop()?.toLowerCase() || '', then languageMap[..] || 'text'
detectLanguage(filePath) ==
  LET extension == LowerCase(filePath[Len(filePath)])
  IN IF extension \in DOMAIN languageMap THEN languageMap[extension]
     ELSE IF extension \in DOMAIN ObjectPrototype THEN ObjectPrototype[extension]
     ELSE "text"

\* tree.filter(item => item.type === 'blob')
RECURSIVE FilterBlobs(_)
FilterBlobs(tree) ==
  IF tree = <<>> THEN <<>>
  ELSE IF Head(tree).type = "blob"
    THEN <<Head(tree)>> \o FilterBlobs(Tail(tree))
    ELSE FilterBlobs(Tail(tree))

\* getFileContent: the content, or '' when the request fails
getFileContent(commit, path, failed) ==
  IF failed THEN EmptyContent ELSE RepoContent(commit, path)

\* The file list getAllFiles builds from a listed tree; readFail is the set of
\* positions of fileEntries whose content request fails.
FilesOf(commit, readFail) ==
  LET fileEntries == FilterBlobs(RepoTree(commit))
  IN [i \in 1..Len(fileEntries) |->
        [path |-> fileEntries[i].path,
         content |-> getFileContent(commit, fileEntries[i].path, i \in readFail),
         language |-> detectLanguage(fileEntries[i].path)]]

-----------------------------------------------------------------------------
(* EmbeddingService *)

\* The vector the embedding API returns for a text
Embed(content) == <<"vec", content.id>>

\* a binary test without the null-byte rule
isBinaryContentRatioOnly(content) == content.ctrl * 10 > content.len

\* content.includes('\0'), or more than 10% of the characters are control
\* characters other than tab, newline and carriage return
isBinaryContent(content) ==
  IF content.nul THEN TRUE
  ELSE content.ctrl * 10 > content.len

\* a skip test that only looks for missing content
SkippedOnlyEmpty(content) == content.len = 0

\* a skip test whose ceiling and ratio are reached, not exceeded
SkippedFromCeiling(content) ==
  \/ content.len = 0
  \/ content.len >= sizeCeiling
  \/ content.nul
  \/ content.ctrl * 10 >= content.len

\* !file.content || file.content.length > 100000 || this.isBinaryContent(..)
Skipped(content) ==
  content.len = 0 \/ content.len > sizeCeiling \/ isBinaryContent(content)

\* a rejected promise; <<Thrown>> is a call of generateEmbeddings that threw
Thrown == [thrown |-> TRUE]

\* the callback of batch.map without its try/catch
FileEmbeddingNoCatch(file, projectId, commitId, branch, apiFail, now) ==
  IF Skipped(file.content) THEN Null
  ELSE IF apiFail THEN Thrown
  ELSE [projectId |-> projectId, repositoryUrl |-> "",
        filePath |-> file.path, content |-> file.content,
        embedding |-> Embed(file.content), language |-> file.language,
        commitId |-> commitId, branch |-> branch,
        createdAt |-> now, updatedAt |-> now]

\* One element of batchPromises: the embedding of a file, or null.
\* apiFail: the embedding call of this file throws.
FileEmbedding(file, projectId, commitId, branch, apiFail, now) ==
  IF Skipped(file.content) THEN Null
  ELSE IF apiFail THEN Null
  ELSE [projectId |-> projectId, repositoryUrl |-> "",
        filePath |-> file.path, content |-> file.content,
        embedding |-> Embed(file.content), language |-> file.language,
        commitId |-> commitId, branch |-> branch,
        createdAt |-> now, updatedAt |-> now]

\* batchResults.filter(Boolean)
RECURSIVE FilterBoolean(_)
FilterBoolean(s) ==
  IF s = <<>> THEN <<>>
  ELSE IF Head(s) = Null THEN FilterBoolean(Tail(s))
  ELSE <<Head(s)>> \o FilterBoolean(Tail(s))

Min(a, b) == IF a < b THEN a ELSE b

\* files.slice(i, i + batchSize), i counted from 0
Slice(s, i, j) == SubSeq(s, i + 1, Min(j, Len(s)))

\* The loop of generateEmbeddings from offset i on; apiFail is the set of
\* positions (from 1) of files whose embedding call throws.
RECURSIVE GenLoop(_, _, _, _, _, _, _, _)
GenLoop(fs, i, acc, projectId, commitId, branch, apiFail, now) ==
  IF ~(i < Len(fs)) THEN acc
  ELSE LET batch == Slice(fs, i, i + batchSize)
           batchResults ==
             [k \in 1..Len(batch) |->
                FileEmbedding(batch[k], projectId, commitId, branch,
                              (i + k) \in apiFail, now)]
       \* await Promise.all(batchPromises) rejects when a promise rejected
       IN IF \E k \in 1..Len(batch) : batchResults[k] = Thrown THEN <<Thrown>>
          ELSE GenLoop(fs, i + batchSize, acc \o FilterBoolean(batchResults),
                       projectId, commitId, branch, apiFail, now)

generateEmbeddings(fs, projectId, commitId, branch, apiFail, now) ==
  GenLoop(fs, 0, <<>>, projectId, commitId, branch, apiFail, now)

\* Positions of the files for which generateEmbeddings calls the API
EmbedCalls(fs) == {i \in 1..Len(fs) : ~Skipped(fs[i].content)}

-----------------------------------------------------------------------------
(* DatabaseService: the SQL statements *)

\* res.rows.length > 0 && res.rows[0].data_type === 'vector'
isVector == dataType = "vector"

\* $5::vector for the vector column, JSON.stringify(embedding) for JSONB
EmbeddingParam(vec) ==
  IF isVector THEN [type |-> "vector", value |-> vec]
  ELSE [type |-> "jsonb", value |-> <<"json">> \o vec]

\* the INSERT without its ON CONFLICT clause, on a table without the constraint
InsertEmbedding(table, e) ==
  table \cup {[e EXCEPT !.embedding = EmbeddingParam(e.embedding)]}

\* a write that replaces the whole row it hits
UpsertEmbeddingWholeRow(table, e) ==
  {row \in table : ~(row.projectId = e.projectId /\ row.filePath = e.filePath)}
    \cup {[e EXCEPT !.embedding = EmbeddingParam(e.embedding)]}

\* a write that also removes the project's rows of other commits
UpsertEmbeddingPruning(table, e) ==
  {row \in table : /\ row.projectId # e.projectId \/ row.commitId = e.commitId
                   /\ ~(row.projectId = e.projectId /\ row.filePath = e.filePath)}
    \cup {[e EXCEPT !.embedding = EmbeddingParam(e.embedding)]}

\* INSERT INTO embeddings .. ON CONFLICT (project_id, file_path) DO UPDATE SET
\* content, embedding, language, commit_id, branch, updated_at
UpsertEmbedding(table, e) ==
  LET conflict == {row \in table : row.projectId = e.projectId
                                   /\ row.filePath = e.filePath}
  IN IF conflict = {}
       THEN table \cup {[e EXCEPT !.embedding = EmbeddingParam(e.embedding)]}
       ELSE (table \ conflict) \cup
            {[row EXCEPT !.content = e.content,
                         !.embedding = EmbeddingParam(e.embedding),
                         !.language = e.language,
                         !.commitId = e.commitId,
                         !.branch = e.branch,
                         !.updatedAt = e.updatedAt] : row \in conflict}

RECURSIVE UpsertAll(_, _)
UpsertAll(table, es) ==
  IF es = <<>> THEN table
  ELSE UpsertAll(UpsertEmbedding(table, Head(es)), Tail(es))

\* INSERT INTO projects .. ON CONFLICT (project_id) DO UPDATE SET all columns
UpsertProject(table, m) ==
  {row \in table : row.projectId # m.projectId} \cup {m}

\* getEmbeddingsByProject: SELECT .. FROM embeddings WHERE project_id = $1,
\* the embedding column read back as the array (JSON.parse for JSONB)
getEmbeddingsByProject(table, projectId) ==
  {[row EXCEPT !.embedding =
      IF row.embedding.type = "jsonb" THEN Tail(row.embedding.value)
      ELSE row.embedding.value] :
     row \in {x \in table : x.projectId = projectId}}

\* SELECT .. FROM projects WHERE project_id = $1; null when no row
SelectProject(table, projectId) ==
  LET rows == {row \in table : row.projectId = projectId}
  IN IF rows = {} THEN Null ELSE CHOOSE row \in rows : TRUE

\* INSERT INTO batches (project_id, commit_id, branch, files, ..)
BatchRow(batch) ==
  [projectId |-> batch.projectId, commitId |-> batch.commitId,
   branch |-> batch.branch, files |-> batch.files]

-----------------------------------------------------------------------------
(* Requests *)

PushEvents ==
  [object_kind : {"push"}, project_id : Projects,
   after : Commits \cup {ZeroSha}, ref : {"refs/heads/main"},
   web_url : {"https://gitlab/proj"}]

MergeRequestEvents ==
  [object_kind : {"merge_request"}, project_id : Projects,
   action : {"open", "update", "close", ""}, source_branch : {SourceBranch},
   last_commit : Commits, web_url : {"https://gitlab/proj"}]

OtherEvents == [object_kind : {"note"}]

Events == PushEvents \cup MergeRequestEvents \cup OtherEvents

\* event.ref.replace('refs/heads/', '')
StripHeads(ref) == IF ref = "refs/heads/main" THEN "main" ELSE ref

IsPush(ev) == ev.object_kind = "push"
IsMergeRequest(ev) == ev.object_kind = "merge_request"

commitId(ev) == IF IsPush(ev) THEN ev.after ELSE ev.last_commit
branchOf(ev) == IF IsPush(ev) THEN StripHeads(ev.ref) ELSE ev.source_branch
\* the ref getAllFiles is called with
fetchRef(ev) == IF IsPush(ev) THEN ev.after ELSE ev.source_branch

Terminal ==
  {"ignored", "skippedDeletion", "skippedAction", "skippedProcessed",
   "skippedNoFiles", "completed", "failed"}

Log(r, ops) == trace' = [trace EXCEPT ![r] = @ \o ops]

RECURSIVE Repeat(_, _)
Repeat(op, n) == IF n = 0 THEN <<>> ELSE <<op>> \o Repeat(op, n - 1)

-----------------------------------------------------------------------------
(* webhook controller *)

\* the head without the test of the all-zero sentinel
DispatchNoSentinel(ev) ==
  IF IsPush(ev) THEN "getProjectMetadata"
  ELSE IF IsMergeRequest(ev)
    THEN IF ev.action \notin {"open", "update"}
           THEN "skippedAction" ELSE "getProjectMetadata"
  ELSE "ignored"

\* the head without the test of the merge-request action
DispatchAnyAction(ev) ==
  IF IsPush(ev)
    THEN IF ev.after = ZeroSha THEN "skippedDeletion" ELSE "getProjectMetadata"
  ELSE IF IsMergeRequest(ev) THEN "getProjectMetadata"
  ELSE "ignored"

\* The synchronous head of processPushEvent / processMergeRequestEvent, up to
\* the first await
Dispatch(ev) ==
  IF IsPush(ev)
    THEN IF ev.after = ZeroSha THEN "skippedDeletion" ELSE "getProjectMetadata"
  ELSE IF IsMergeRequest(ev)
    THEN IF ev.action \notin {"open", "update"}
           THEN "skippedAction" ELSE "getProjectMetadata"
  ELSE "ignored"

\* processWebhook that answers only after the processing
processWebhookAnswerLast(r) ==
  /\ pc[r] = "idle"
  /\ \A q \in 1..(r - 1) : pc[q] # "idle"
  /\ \E ev \in Events :
       /\ IsMergeRequest(ev) => ev.last_commit = branchHead
       /\ event' = [event EXCEPT ![r] = ev]
       /\ trace' = [trace EXCEPT ![r] = <<>>]
       /\ pc' = [pc EXCEPT ![r] = Dispatch(ev)]
  /\ UNCHANGED <<dbVars, dataType, branchHead, clock, faults, meta, files,
                 embs, inTx, rowIdx, genVars>>

\* the values of WEBHOOK_SECRET and of the X-Gitlab-Token header; "" is the
\* variable that is not set and the header that is missing
Secrets == {"", "s3cret"}
Tokens == {"", "s3cret", "wrong"}

\* a middleware that only asks for a token
webhookAuthAnyToken(secret, token) ==
  IF secret = "" THEN "next"
  ELSE IF token = "" THEN "401"
  ELSE "next"

\* webhookAuth: next() without a secret; 401 on a missing token and on a
\* token that differs from the secret
webhookAuth(secret, token) ==
  IF secret = "" THEN "next"
  ELSE IF token = "" THEN "401"
  ELSE IF token # secret THEN "401"
  ELSE "next"

\* the body of processWebhook: res.status(202) and then the dispatch on
\* object_kind.  A merge-request event carries the head of its source branch
\* as last commit.
processWebhookBody(r, ev) ==
  /\ IsMergeRequest(ev) => ev.last_commit = branchHead
  /\ event' = [event EXCEPT ![r] = ev]
  /\ trace' = [trace EXCEPT ![r] = <<"202">>]
  /\ pc' = [pc EXCEPT ![r] = Dispatch(ev)]

\* processWebhook, reached through a middleware that called next()
processWebhook(r) ==
  /\ pc[r] = "idle"
  /\ \A q \in 1..(r - 1) : pc[q] # "idle"
  /\ \E ev \in Events : processWebhookBody(r, ev)
  /\ UNCHANGED <<dbVars, dataType, branchHead, clock, faults, meta, files,
                 embs, inTx, rowIdx, genVars>>

\* app.post('/webhook', webhookAuth, processWebhook): the middleware answers
\* 401 itself or hands the request to processWebhook
postWebhook(r) ==
  /\ pc[r] = "idle"
  /\ \A q \in 1..(r - 1) : pc[q] # "idle"
  /\ \E ev \in Events, token \in Tokens :
       LET verdict == webhookAuth(auth.secret, token)
       IN /\ auth' = [auth EXCEPT !.token[r] = token, !.status[r] = verdict]
          /\ IF verdict = "next"
               THEN processWebhookBody(r, ev)
               ELSE /\ event' = [event EXCEPT ![r] = ev]
                    /\ trace' = [trace EXCEPT ![r] = <<"401">>]
                    /\ pc' = [pc EXCEPT ![r] = "unauthorized"]
  /\ UNCHANGED <<dbVars, dataType, branchHead, clock, faults, meta, files,
                 embs, inTx, rowIdx, genIn, genOut, searchOut, schema, par,
                 chunkOut, langOut, workdir>>

\* the gate left out
GateOpen(ev, m) == "getAllFiles"

\* The idempotency gate as the handlers apply it to the metadata they hold
Gate(ev, m) ==
  IF IsPush(ev) /\ m.lastProcessedCommit = ev.after
    THEN "skippedProcessed" ELSE "getAllFiles"

\* await dbService.getProjectMetadata(projectId), and the gate when a row exists
getProjectMetadata(r) ==
  /\ pc[r] = "getProjectMetadata"
  /\ LET m == SelectProject(projects, event[r].project_id)
     IN /\ meta' = [meta EXCEPT ![r] = m]
        /\ pc' = [pc EXCEPT ![r] =
                    IF m = Null THEN "getProject" ELSE Gate(event[r], m)]
  /\ Log(r, <<"getProjectMetadata">>)
  /\ UNCHANGED <<dbVars, dataType, branchHead, clock, faults, event, files,
                 embs, inTx, rowIdx, genVars>>

\* a handler that stores the fresh metadata as soon as it has built it
getProjectSavingMetadata(r) ==
  /\ pc[r] = "getProject"
  /\ LET projectDetails == ProjectDetails(event[r].project_id)
         m == [projectId |-> event[r].project_id,
               name |-> projectDetails.name,
               description |-> projectDetails.description,
               url |-> projectDetails.web_url,
               defaultBranch |-> projectDetails.default_branch,
               lastProcessedCommit |-> ""]
     IN /\ meta' = [meta EXCEPT ![r] = m]
        /\ projects' = UpsertProject(projects, m)
        /\ pc' = [pc EXCEPT ![r] = Gate(event[r], m)]
  /\ Log(r, <<"getProject">>)
  /\ UNCHANGED <<embeddings, batches, dataType, branchHead, clock, faults,
                 event, files, embs, inTx, rowIdx, genVars>>

\* await gitlabService.getProject(projectId), the fresh metadata, the gate
getProject(r) ==
  /\ pc[r] = "getProject"
  /\ LET projectDetails == ProjectDetails(event[r].project_id)
         m == [projectId |-> event[r].project_id,
               name |-> projectDetails.name,
               description |-> projectDetails.description,
               url |-> projectDetails.web_url,
               defaultBranch |-> projectDetails.default_branch,
               lastProcessedCommit |-> ""]
     IN /\ meta' = [meta EXCEPT ![r] = m]
        /\ pc' = [pc EXCEPT ![r] = Gate(event[r], m)]
  /\ Log(r, <<"getProject">>)
  /\ UNCHANGED <<dbVars, dataType, branchHead, clock, faults, event, files,
                 embs, inTx, rowIdx, genVars>>

\* await gitlabService.getAllFiles(projectId, ref): the tree is listed, each
\* blob is read (a failed read yields ''), and the no-files exit
getAllFiles(r) ==
  /\ pc[r] = "getAllFiles"
  /\ LET commit == ResolveRef(fetchRef(event[r]))
         n == Len(FilterBlobs(RepoTree(commit)))
     IN \E readFail \in SUBSET (1..n) :
          /\ faults + Cardinality(readFail) <= MaxFaults
          /\ faults' = faults + Cardinality(readFail)
          /\ files' = [files EXCEPT ![r] = FilesOf(commit, readFail)]
          /\ Log(r, <<"getRepositoryTree">> \o Repeat("getFileContent", n))
          /\ pc' = [pc EXCEPT ![r] =
                      IF n = 0 THEN "skippedNoFiles" ELSE "generateEmbeddings"]
  /\ UNCHANGED <<dbVars, dataType, branchHead, clock, event, meta, embs, inTx,
                 rowIdx, genVars>>

\* embeddings.forEach(embedding => embedding.repositoryUrl = repositoryUrl)
SetRepositoryUrl(es, url) ==
  [i \in 1..Len(es) |-> [es[i] EXCEPT !.repositoryUrl = url]]

\* await embeddingService.generateEmbeddings(files, projectId, commitId, branch)
generateEmbeddingsStep(r) ==
  /\ pc[r] = "generateEmbeddings"
  /\ clock' = clock + 1
  /\ \E apiFail \in SUBSET EmbedCalls(files[r]) :
       /\ faults + Cardinality(apiFail) <= MaxFaults
       /\ faults' = faults + Cardinality(apiFail)
       /\ LET result == generateEmbeddings(files[r], event[r].project_id,
                                           commitId(event[r]),
                                           branchOf(event[r]), apiFail, clock')
          IN IF result = <<Thrown>>
               THEN /\ pc' = [pc EXCEPT ![r] = "failed"]
                    /\ embs' = embs
               ELSE /\ pc' = [pc EXCEPT ![r] = "saveEmbeddings"]
                    /\ embs' = [embs EXCEPT ![r] =
                                  SetRepositoryUrl(result, event[r].web_url)]
  /\ Log(r, Repeat("generateEmbedding", Cardinality(EmbedCalls(files[r]))))
  /\ UNCHANGED <<dbVars, dataType, branchHead, event, meta, files, inTx,
                 rowIdx, genVars>>

-----------------------------------------------------------------------------
(* DatabaseService.saveEmbeddings, statement by statement *)

IsDirect(ev) == ev.object_kind = "direct"

IsClone(ev) == ev.object_kind = "clone"

\* where the caller of saveEmbeddings continues
Returned(r) ==
  IF IsDirect(event[r]) THEN "returned"
  ELSE IF IsClone(event[r]) THEN "cloneSaveBatch" ELSE "saveBatch"
Threw(r) ==
  IF IsDirect(event[r]) THEN "threw"
  ELSE IF IsClone(event[r]) THEN "cloneCatch" ELSE "failed"

\* saveEmbeddings without client.query('BEGIN')
saveEmbeddingsNoBegin(r) ==
  /\ pc[r] = "saveEmbeddings"
  /\ IF embs[r] = <<>>
       THEN /\ pc' = [pc EXCEPT ![r] = Returned(r)]
            /\ UNCHANGED <<rowIdx, trace>>
       ELSE /\ rowIdx' = [rowIdx EXCEPT ![r] = 0]
            /\ pc' = [pc EXCEPT ![r] = "upsert"]
            /\ Log(r, <<"BEGIN">>)
  /\ UNCHANGED <<dbVars, dataType, branchHead, clock, faults, event, meta,
                 files, embs, inTx, genVars>>

\* the early return on an empty list; else the data_type query and BEGIN
saveEmbeddingsBegin(r) ==
  /\ pc[r] = "saveEmbeddings"
  /\ IF embs[r] = <<>>
       THEN /\ pc' = [pc EXCEPT ![r] = Returned(r)]
            /\ UNCHANGED <<inTx, rowIdx, trace>>
       ELSE /\ inTx' = [inTx EXCEPT ![r] = TRUE]
            /\ rowIdx' = [rowIdx EXCEPT ![r] = 0]
            /\ pc' = [pc EXCEPT ![r] = "upsert"]
            /\ Log(r, <<"BEGIN">>)
  /\ UNCHANGED <<dbVars, dataType, branchHead, clock, faults, event, meta,
                 files, embs, genVars>>

\* one iteration of for (const embedding of embeddings): the INSERT .. ON
\* CONFLICT of the next row
saveEmbeddingsRow(r) ==
  /\ pc[r] = "upsert"
  /\ rowIdx[r] < Len(embs[r])
  /\ rowIdx' = [rowIdx EXCEPT ![r] = @ + 1]
  /\ embeddings' = IF inTx[r] THEN embeddings
                   ELSE UpsertEmbedding(embeddings, embs[r][rowIdx[r] + 1])
  /\ Log(r, <<"upsert">>)
  /\ UNCHANGED <<batches, projects, dataType, branchHead, clock, faults, pc,
                 event, meta, files, embs, inTx, genVars>>

\* a COMMIT whose promise never settles
saveEmbeddingsCommitHangs(r) ==
  /\ pc[r] = "upsert"
  /\ rowIdx[r] = Len(embs[r])
  /\ FALSE
  /\ UNCHANGED vars

\* await client.query('COMMIT')
saveEmbeddingsCommit(r) ==
  /\ pc[r] = "upsert"
  /\ rowIdx[r] = Len(embs[r])
  /\ embeddings' = IF inTx[r] THEN UpsertAll(embeddings, embs[r])
                   ELSE embeddings
  /\ inTx' = [inTx EXCEPT ![r] = FALSE]
  /\ pc' = [pc EXCEPT ![r] = Returned(r)]
  /\ Log(r, <<"COMMIT">>)
  /\ UNCHANGED <<batches, projects, dataType, branchHead, clock, faults,
                 event, meta, files, embs, rowIdx, genVars>>

\* a saveEmbeddings that rolls back and returns as if it had succeeded
saveEmbeddingsRollbackSwallowed(r) ==
  /\ \/ pc[r] = "saveEmbeddings" /\ embs[r] # <<>>
     \/ pc[r] = "upsert" /\ rowIdx[r] < Len(embs[r])
  /\ faults < MaxFaults
  /\ faults' = faults + 1
  /\ inTx' = [inTx EXCEPT ![r] = FALSE]
  /\ pc' = [pc EXCEPT ![r] = Returned(r)]
  /\ Log(r, <<"ROLLBACK">>)
  /\ UNCHANGED <<dbVars, dataType, branchHead, clock, event, meta, files,
                 embs, rowIdx, genVars>>

\* a statement of saveEmbeddings throws: catch, ROLLBACK, rethrow
saveEmbeddingsRollback(r) ==
  /\ \/ pc[r] = "saveEmbeddings" /\ embs[r] # <<>>
     \/ pc[r] = "upsert" /\ rowIdx[r] < Len(embs[r])
  /\ faults < MaxFaults
  /\ faults' = faults + 1
  /\ inTx' = [inTx EXCEPT ![r] = FALSE]
  /\ pc' = [pc EXCEPT ![r] = Threw(r)]
  /\ Log(r, <<"ROLLBACK">>)
  /\ UNCHANGED <<dbVars, dataType, branchHead, clock, event, meta, files,
                 embs, rowIdx, genVars>>

-----------------------------------------------------------------------------
(* The tail of the webhook handlers *)

\* saveBatch with the metadata update moved before the batch insert
saveBatchAfterMetadata(r) ==
  /\ pc[r] = "saveBatch"
  /\ LET m == [meta[r] EXCEPT !.lastProcessedCommit = commitId(event[r])]
         batch == [projectId |-> event[r].project_id,
                   commitId |-> commitId(event[r]),
                   branch |-> branchOf(event[r]),
                   files |-> files[r],
                   embeddings |-> embs[r]]
     IN /\ projects' = UpsertProject(projects, m)
        /\ batches' = Append(batches, BatchRow(batch))
  /\ pc' = [pc EXCEPT ![r] = "updateProjectMetadata"]
  /\ Log(r, <<"updateProjectMetadata", "saveBatch">>)
  /\ UNCHANGED <<embeddings, dataType, branchHead, clock, faults,
                 event, meta, files, embs, inTx, rowIdx, genVars>>

\* await dbService.saveBatch(batch)
saveBatch(r) ==
  /\ pc[r] = "saveBatch"
  /\ LET batch == [projectId |-> event[r].project_id,
                   commitId |-> commitId(event[r]),
                   branch |-> branchOf(event[r]),
                   files |-> files[r],
                   embeddings |-> embs[r]]
     IN batches' = Append(batches, BatchRow(batch))
  /\ pc' = [pc EXCEPT ![r] = "updateProjectMetadata"]
  /\ Log(r, <<"saveBatch">>)
  /\ UNCHANGED <<embeddings, projects, dataType, branchHead, clock, faults,
                 event, meta, files, embs, inTx, rowIdx, genVars>>

\* updateProjectMetadata without the assignment of lastProcessedCommit
updateProjectMetadataStale(r) ==
  /\ pc[r] = "updateProjectMetadata"
  /\ projects' = UpsertProject(projects, meta[r])
  /\ pc' = [pc EXCEPT ![r] = "completed"]
  /\ Log(r, <<"updateProjectMetadata">>)
  /\ UNCHANGED <<embeddings, batches, dataType, branchHead, clock, faults,
                 event, meta, files, embs, inTx, rowIdx, genVars>>

\* projectMetadata.lastProcessedCommit = commitId;
\* await dbService.updateProjectMetadata(projectMetadata)
updateProjectMetadata(r) ==
  /\ pc[r] = "updateProjectMetadata"
  /\ LET m == [meta[r] EXCEPT !.lastProcessedCommit = commitId(event[r])]
     IN /\ meta' = [meta EXCEPT ![r] = m]
        /\ projects' = UpsertProject(projects, m)
  /\ pc' = [pc EXCEPT ![r] = "completed"]
  /\ Log(r, <<"updateProjectMetadata">>)
  /\ UNCHANGED <<embeddings, batches, dataType, branchHead, clock, faults,
                 event, files, embs, inTx, rowIdx, genVars>>

\* a getAllFiles that answers a failed tree listing with the empty list
callFailsTreeSwallowed(r) ==
  /\ pc[r] \in {"getProjectMetadata", "getProject", "getAllFiles", "saveBatch",
                "updateProjectMetadata"}
  /\ faults < MaxFaults
  /\ faults' = faults + 1
  /\ Log(r, <<IF pc[r] = "getAllFiles" THEN "getRepositoryTree" ELSE pc[r]>>)
  /\ pc' = [pc EXCEPT ![r] =
              IF pc[r] = "getAllFiles" THEN "generateEmbeddings" ELSE "failed"]
  /\ UNCHANGED <<dbVars, dataType, branchHead, clock, event, meta, files,
                 embs, inTx, rowIdx, genVars>>

\* An awaited call other than saveEmbeddings throws; the catch of the handler
\* logs it and the run ends.
callFails(r) ==
  /\ pc[r] \in {"getProjectMetadata", "getProject", "getAllFiles", "saveBatch",
                "updateProjectMetadata"}
  /\ faults < MaxFaults
  /\ faults' = faults + 1
  /\ Log(r, <<IF pc[r] = "getAllFiles" THEN "getRepositoryTree" ELSE pc[r]>>)
  /\ pc' = [pc EXCEPT ![r] = "failed"]
  /\ UNCHANGED <<dbVars, dataType, branchHead, clock, event, meta, files,
                 embs, inTx, rowIdx, genVars>>

\* The source branch of the hosted repository receives the next commit.
BranchAdvance ==
  /\ branchHead = "c1"
  /\ branchHead' = "c2"
  /\ UNCHANGED <<dbVars, dataType, clock, faults, runVars, genVars>>

-----------------------------------------------------------------------------
(* RepositoryService and the repository controller: clone-based ingestion  *)

RmCost(rmFails) == IF rmFails THEN 1 ELSE 0

\* fs.rmSync(repoPath, { recursive: true, force: true }) in the catch of
\* cloneRepository and in cleanupRepository, which logs what rmSync throws:
\* the directory is gone unless rmSync threw
AfterRm(r, rmFails) ==
  [workdir EXCEPT ![r] = IF rmFails THEN "rmFailed" ELSE "removed"]

\* request bodies of POST /api/repositories/embed: repositoryUrl, '' when the
\* field is missing; the second has no path, the last is an empty repository
CloneUrls ==
  {"", "https://gitlab", "https://gitlab/group/proj", "https://gitlab/group/empty"}

\* new URL(repositoryUrl).pathname without its slashes; null when empty
extractProjectId(repositoryUrl) ==
  CASE repositoryUrl = "https://gitlab/group/proj" -> [path |-> "group/proj"]
    [] repositoryUrl = "https://gitlab/group/empty" -> [path |-> "group/empty"]
    [] OTHER -> Null

\* the md5 of the path, its first 8 hex digits as a number, % 2147483647
generateProjectIdFromPath(path) ==
  CASE path = "group/proj" -> 7
    [] path = "group/empty" -> 8
    [] OTHER -> 9

\* repositoryUrl.split('/').pop() || 'Unknown'
UrlName(repositoryUrl) ==
  CASE repositoryUrl = "https://gitlab/group/proj" -> "proj"
    [] repositoryUrl = "https://gitlab/group/empty" -> "empty"
    [] repositoryUrl = "https://gitlab" -> "gitlab"
    [] OTHER -> "Unknown"

\* uuidv4(): the n-th identifier drawn
Uuid(n) == <<"u1", "u2", "u3", "u4">>[n]

\* the working copy git clone leaves: the tree of the head of the default
\* branch and the .git directory
WorkingCopy(repositoryUrl) ==
  <<[path |-> <<"", "git">>, type |-> "tree"]>>
    \o RepoTree(IF repositoryUrl = "https://gitlab/group/empty" THEN "c0"
                ELSE branchHead)

WorkingContent(path) == RepoContent(branchHead, path)

localLanguageMap ==
  [ext \in {"js", "jsx", "ts", "tsx", "py", "rb", "java", "c", "cpp", "cs",
            "go", "php", "html", "css", "scss", "json", "md", "sql", "sh",
            "yaml", "yml", "xml", "swift", "kt", "rs"} |->
     CASE ext \in {"js", "jsx"} -> "javascript"
       [] ext \in {"ts", "tsx"} -> "typescript"
       [] ext = "py" -> "python"
       [] ext = "rb" -> "ruby"
       [] ext = "cs" -> "csharp"
       [] ext = "md" -> "markdown"
       [] ext = "sh" -> "shell"
       [] ext \in {"yaml", "yml"} -> "yaml"
       [] ext = "kt" -> "kotlin"
       [] ext = "rs" -> "rust"
       [] OTHER -> ext]

\* the segment ends a directory name: the next one starts the base name
EndsWithSlash(segment) == segment = "src/"

\* path.extname(filePath).toLowerCase(): '' without a dot and for a dotfile,
\* where the dots of the directories do not count
extname(filePath) ==
  IF \/ Len(filePath) < 2
     \/ (Len(filePath) = 2 /\ filePath[1] = "")
     \/ EndsWithSlash(filePath[Len(filePath) - 1])
    THEN ""
    ELSE LowerCase(filePath[Len(filePath)])

\* RepositoryService.detectLanguage: languageMap[extension] || 'plaintext'
detectLanguageLocal(filePath) ==
  IF extname(filePath) \in DOMAIN localLanguageMap
    THEN localLanguageMap[extname(filePath)] ELSE "plaintext"

\* getFilesRecursively: .git and node_modules are skipped, so are files over
\* 1MB and files whose read throws (readFail: positions of entries)
RECURSIVE LocalFiles(_, _, _)
LocalFiles(entries, i, readFail) ==
  IF i > Len(entries) THEN <<>>
  ELSE LET entry == entries[i]
           content == WorkingContent(entry.path)
       IN IF entry.path \in {<<"", "git">>, <<"node_modules">>}
               \/ entry.type # "blob"
               \/ content.len > 1000000
               \/ i \in readFail
            THEN LocalFiles(entries, i + 1, readFail)
            ELSE <<[path |-> entry.path, content |-> content,
                    language |-> detectLanguageLocal(entry.path)]>>
                   \o LocalFiles(entries, i + 1, readFail)

\* processRepository: 400 without repositoryUrl; else the 202 and then
\* processRepositoryAsync
processRepository(r) ==
  /\ pc[r] = "idle"
  /\ \A q \in 1..(r - 1) : pc[q] # "idle"
  /\ \E repositoryUrl \in CloneUrls :
       /\ event' = [event EXCEPT ![r] =
                      [object_kind |-> "clone", repositoryUrl |-> repositoryUrl,
                       project_id |-> 0, commitId |-> ""]]
       /\ IF repositoryUrl = ""
            THEN /\ trace' = [trace EXCEPT ![r] = <<"400">>]
                 /\ pc' = [pc EXCEPT ![r] = "rejected"]
            ELSE /\ trace' = [trace EXCEPT ![r] = <<"202">>]
                 /\ pc' = [pc EXCEPT ![r] = "cloneRepository"]
  /\ UNCHANGED <<dbVars, dataType, branchHead, clock, faults, meta, files,
                 embs, inTx, rowIdx, genVars>>

\* await repositoryService.cloneRepository(repositoryUrl): without a project
\* path it throws before the directory is made; a failed git clone removes
\* the directory and rethrows
cloneRepository(r) ==
  /\ pc[r] = "cloneRepository"
  /\ LET projectId == extractProjectId(event[r].repositoryUrl)
     IN IF projectId = Null
          THEN /\ pc' = [pc EXCEPT ![r] = "failed"]
               /\ Log(r, <<"cloneRepository">>)
               /\ UNCHANGED <<event, faults, workdir>>
          ELSE \/ /\ event' = [event EXCEPT ![r].project_id =
                                  generateProjectIdFromPath(projectId.path)]
                  /\ pc' = [pc EXCEPT ![r] = "getFilesFromLocalRepo"]
                  /\ workdir' = [workdir EXCEPT ![r] = "exists"]
                  /\ Log(r, <<"cloneRepository", "mkdir", "git clone">>)
                  /\ UNCHANGED faults
               \/ \E rmFails \in BOOLEAN :
                    /\ faults + 1 + RmCost(rmFails) <= MaxFaults
                    /\ faults' = faults + 1 + RmCost(rmFails)
                    /\ workdir' = AfterRm(r, rmFails)
                    /\ pc' = [pc EXCEPT ![r] = "failed"]
                    /\ Log(r, <<"cloneRepository", "mkdir", "git clone", "rm">>)
                    /\ UNCHANGED event
  /\ UNCHANGED <<dbVars, dataType, branchHead, clock, meta, files, embs, inTx,
                 rowIdx, auxVars>>

\* await repositoryService.getFilesFromLocalRepo(repoPath) and the no-files
\* exit; the finally removes the working copy
getFilesFromLocalRepo(r) ==
  /\ pc[r] = "getFilesFromLocalRepo"
  /\ LET entries == WorkingCopy(event[r].repositoryUrl)
     IN \E readFail \in SUBSET {i \in 1..Len(entries) : entries[i].type = "blob"},
           rmFails \in BOOLEAN :
          LET fs == LocalFiles(entries, 1, readFail)
              cost == Cardinality(readFail)
                        + (IF fs = <<>> THEN RmCost(rmFails) ELSE 0)
          IN /\ fs # <<>> => ~rmFails
             /\ faults + cost <= MaxFaults
             /\ faults' = faults + cost
             /\ files' = [files EXCEPT ![r] = fs]
             /\ IF fs = <<>>
                  THEN /\ pc' = [pc EXCEPT ![r] = "skippedNoFiles"]
                       /\ workdir' = AfterRm(r, rmFails)
                       /\ Log(r, <<"getFilesFromLocalRepo", "rm">>)
                  ELSE /\ pc' = [pc EXCEPT ![r] = "cloneGetProjectMetadata"]
                       /\ workdir' = workdir
                       /\ Log(r, <<"getFilesFromLocalRepo">>)
  /\ UNCHANGED <<dbVars, dataType, branchHead, clock, event, meta, embs, inTx,
                 rowIdx, auxVars>>

\* await dbService.getProjectMetadata(numericProjectId), and the metadata
\* built when there is none
cloneGetProjectMetadata(r) ==
  /\ pc[r] = "cloneGetProjectMetadata"
  /\ LET m == SelectProject(projects, event[r].project_id)
     IN IF m = Null
          THEN /\ meta' = [meta EXCEPT ![r] =
                             [projectId |-> event[r].project_id,
                              name |-> UrlName(event[r].repositoryUrl),
                              description |-> "",
                              url |-> event[r].repositoryUrl,
                              defaultBranch |-> "main",
                              lastProcessedCommit |-> ""]]
               /\ pc' = [pc EXCEPT ![r] = "saveProjectMetadata"]
          ELSE /\ meta' = [meta EXCEPT ![r] = m]
               /\ pc' = [pc EXCEPT ![r] = "cloneGenerateEmbeddings"]
  /\ Log(r, <<"getProjectMetadata">>)
  /\ UNCHANGED <<dbVars, dataType, branchHead, clock, faults, event, files,
                 embs, inTx, rowIdx, genVars>>

\* await dbService.saveProjectMetadata(projectMetadata)
saveProjectMetadata(r) ==
  /\ pc[r] = "saveProjectMetadata"
  /\ projects' = UpsertProject(projects, meta[r])
  /\ pc' = [pc EXCEPT ![r] = "cloneGenerateEmbeddings"]
  /\ Log(r, <<"saveProjectMetadata">>)
  /\ UNCHANGED <<embeddings, batches, dataType, branchHead, clock, faults,
                 event, meta, files, embs, inTx, rowIdx, genVars>>

\* a clone run that takes the head of the working copy as its commitId
cloneGenerateEmbeddingsAtHead(r) ==
  /\ pc[r] = "cloneGenerateEmbeddings"
  /\ clock' = clock + 1
  /\ event' = [event EXCEPT ![r].commitId = branchHead]
  /\ \E apiFail \in SUBSET EmbedCalls(files[r]) :
       /\ faults + Cardinality(apiFail) <= MaxFaults
       /\ faults' = faults + Cardinality(apiFail)
       /\ LET result == generateEmbeddings(files[r], event[r].project_id,
                                           branchHead, "main", apiFail,
                                           clock')
          IN IF result = <<Thrown>>
               THEN /\ pc' = [pc EXCEPT ![r] = "cloneCatch"]
                    /\ embs' = embs
               ELSE /\ pc' = [pc EXCEPT ![r] = "saveEmbeddings"]
                    /\ embs' = [embs EXCEPT ![r] =
                                  SetRepositoryUrl(result,
                                                   event[r].repositoryUrl)]
  /\ Log(r, Repeat("generateEmbedding", Cardinality(EmbedCalls(files[r]))))
  /\ UNCHANGED <<dbVars, dataType, branchHead, meta, files, inTx, rowIdx,
                 genVars>>

\* commitId = uuidv4(), branch = 'main', and
\* await embeddingService.generateEmbeddings(files, numericProjectId, ..)
cloneGenerateEmbeddings(r) ==
  /\ pc[r] = "cloneGenerateEmbeddings"
  /\ clock' = clock + 1
  /\ event' = [event EXCEPT ![r].commitId = Uuid(clock')]
  /\ \E apiFail \in SUBSET EmbedCalls(files[r]) :
       /\ faults + Cardinality(apiFail) <= MaxFaults
       /\ faults' = faults + Cardinality(apiFail)
       /\ LET result == generateEmbeddings(files[r], event[r].project_id,
                                           Uuid(clock'), "main", apiFail,
                                           clock')
          IN IF result = <<Thrown>>
               THEN /\ pc' = [pc EXCEPT ![r] = "cloneCatch"]
                    /\ embs' = embs
               ELSE /\ pc' = [pc EXCEPT ![r] = "saveEmbeddings"]
                    /\ embs' = [embs EXCEPT ![r] =
                                  SetRepositoryUrl(result,
                                                   event[r].repositoryUrl)]
  /\ Log(r, Repeat("generateEmbedding", Cardinality(EmbedCalls(files[r]))))
  /\ UNCHANGED <<dbVars, dataType, branchHead, meta, files, inTx, rowIdx,
                 genVars>>

\* a clone run that goes on to the metadata without its batch row
cloneSaveBatchOmitted(r) ==
  /\ pc[r] = "cloneSaveBatch"
  /\ pc' = [pc EXCEPT ![r] = "cloneUpdateProjectMetadata"]
  /\ Log(r, <<"saveBatch">>)
  /\ UNCHANGED <<dbVars, dataType, branchHead, clock, faults,
                 event, meta, files, embs, inTx, rowIdx, genVars>>

\* await dbService.saveBatch(batch)
cloneSaveBatch(r) ==
  /\ pc[r] = "cloneSaveBatch"
  /\ LET batch == [projectId |-> event[r].project_id,
                   commitId |-> event[r].commitId,
                   branch |-> "main",
                   files |-> files[r],
                   embeddings |-> embs[r]]
     IN batches' = Append(batches, BatchRow(batch))
  /\ pc' = [pc EXCEPT ![r] = "cloneUpdateProjectMetadata"]
  /\ Log(r, <<"saveBatch">>)
  /\ UNCHANGED <<embeddings, projects, dataType, branchHead, clock, faults,
                 event, meta, files, embs, inTx, rowIdx, genVars>>

\* projectMetadata.lastProcessedCommit = commitId;
\* await dbService.updateProjectMetadata(projectMetadata); then the finally
cloneUpdateProjectMetadata(r) ==
  /\ pc[r] = "cloneUpdateProjectMetadata"
  /\ LET m == [meta[r] EXCEPT !.lastProcessedCommit = event[r].commitId]
     IN /\ meta' = [meta EXCEPT ![r] = m]
        /\ projects' = UpsertProject(projects, m)
  /\ pc' = [pc EXCEPT ![r] = "completed"]
  /\ Log(r, <<"updateProjectMetadata", "rm">>)
  /\ \E rmFails \in BOOLEAN :
       /\ faults + RmCost(rmFails) <= MaxFaults
       /\ faults' = faults + RmCost(rmFails)
       /\ workdir' = AfterRm(r, rmFails)
  /\ UNCHANGED <<embeddings, batches, dataType, branchHead, clock,
                 event, files, embs, inTx, rowIdx, auxVars>>

\* a catch that rethrows to processRepository, which answers 500
cloneCatchReports(r) ==
  /\ pc[r] = "cloneCatch"
  /\ pc' = [pc EXCEPT ![r] = "failed"]
  /\ Log(r, <<"rm", "500">>)
  /\ UNCHANGED <<dbVars, dataType, branchHead, clock, faults, event, meta,
                 files, embs, inTx, rowIdx, genVars>>

\* the catch of processRepositoryAsync after saveEmbeddings threw, and the
\* finally: repositoryService.cleanupRepository(repoPath)
cloneCatch(r) ==
  /\ pc[r] = "cloneCatch"
  /\ pc' = [pc EXCEPT ![r] = "failed"]
  /\ Log(r, <<"rm">>)
  /\ \E rmFails \in BOOLEAN :
       /\ faults + RmCost(rmFails) <= MaxFaults
       /\ faults' = faults + RmCost(rmFails)
       /\ workdir' = AfterRm(r, rmFails)
  /\ UNCHANGED <<dbVars, dataType, branchHead, clock, event, meta,
                 files, embs, inTx, rowIdx, auxVars>>

\* An awaited call of processRepositoryAsync other than the clone and
\* saveEmbeddings throws: the catch logs it, the finally removes the copy.
cloneCallFails(r) ==
  /\ pc[r] \in {"getFilesFromLocalRepo", "cloneGetProjectMetadata",
                "saveProjectMetadata", "cloneSaveBatch",
                "cloneUpdateProjectMetadata"}
  /\ \E rmFails \in BOOLEAN :
       /\ faults + 1 + RmCost(rmFails) <= MaxFaults
       /\ faults' = faults + 1 + RmCost(rmFails)
       /\ workdir' = AfterRm(r, rmFails)
  /\ Log(r, <<CASE pc[r] = "cloneGetProjectMetadata" -> "getProjectMetadata"
               [] pc[r] = "cloneSaveBatch" -> "saveBatch"
               [] pc[r] = "cloneUpdateProjectMetadata" -> "updateProjectMetadata"
               [] OTHER -> pc[r],
             "rm">>)
  /\ pc' = [pc EXCEPT ![r] = "failed"]
  /\ UNCHANGED <<dbVars, dataType, branchHead, clock, event, meta, files,
                 embs, inTx, rowIdx, auxVars>>

-----------------------------------------------------------------------------
(* Direct use of the storage service: saveEmbedding and saveEmbeddings     *)
(* called with arbitrary rows.                                             *)

\* keys that share the path, keys that share the project
StoreVersions == {1, 2}

StoreRow(p, path, v) ==
  [projectId |-> p,
   repositoryUrl |-> IF v = 1 THEN "https://gitlab/proj" ELSE "https://gitlab/moved",
   filePath |-> path,
   content |-> IF v = 1 THEN Text("A1") ELSE Text("A2"),
   embedding |-> Embed(IF v = 1 THEN Text("A1") ELSE Text("A2")),
   language |-> IF v = 1 THEN "python" ELSE "text",
   commitId |-> IF v = 1 THEN "c1" ELSE "c2",
   branch |-> IF v = 1 THEN "main" ELSE "dev",
   createdAt |-> v, updatedAt |-> v]

\* both versions for the first key, one version for each other key
StoreRows ==
  {StoreRow(k[1], k[2], v) : k \in {<<1, PathA>>}, v \in StoreVersions}
    \cup {StoreRow(1, PathC, 1), StoreRow(2, PathA, 2)}

StoreLists == UNION {[1..n -> StoreRows] : n \in 0..MaxStoreRows}

\* saveEmbedding: one INSERT .. ON CONFLICT on a client outside a transaction
saveEmbedding(e) ==
  /\ embeddings' = UpsertEmbedding(embeddings, e)
  /\ UNCHANGED <<batches, projects, dataType, branchHead, clock, faults,
                 runVars, genVars>>

\* a caller invokes dbService.saveEmbeddings(es)
StoreCall(r) ==
  /\ pc[r] \in {"idle", "returned", "threw"}
  /\ \E es \in StoreLists :
       embs' = [embs EXCEPT ![r] = es]
  /\ event' = [event EXCEPT ![r] = [object_kind |-> "direct"]]
  /\ pc' = [pc EXCEPT ![r] = "saveEmbeddings"]
  /\ trace' = [trace EXCEPT ![r] = <<>>]
  /\ rowIdx' = [rowIdx EXCEPT ![r] = 0]
  /\ UNCHANGED <<dbVars, dataType, branchHead, clock, faults, meta, files,
                 inTx, genVars>>

-----------------------------------------------------------------------------
(* generateEmbeddings on arbitrary file lists *)

BigContent == [id |-> "BIG", len |-> sizeCeiling + 1, nul |-> FALSE, ctrl |-> 0]

\* ok: eligible text; fail: eligible text whose embedding call throws;
\* empty, big, bin: ineligible contents
GenKinds == {"ok", "fail", "empty", "big", "bin"}

GenNames == <<"f1", "f2", "f3", "f4", "f5", "f6", "f7", "f8", "f9">>

GenFile(kind, i) ==
  [path |-> <<GenNames[i], "py">>,
   content |-> CASE kind = "empty" -> EmptyContent
                 [] kind = "big" -> BigContent
                 [] kind = "bin" -> BinContent
                 [] OTHER -> Text(GenNames[i]),
   language |-> detectLanguage(<<GenNames[i], "py">>)]

GenInput(kinds) ==
  [kinds |-> kinds,
   files |-> [i \in 1..Len(kinds) |-> GenFile(kinds[i], i)],
   apiFail |-> {i \in 1..Len(kinds) : kinds[i] = "fail"}]

GenInputs ==
  {GenInput(kinds) : kinds \in UNION {[1..n -> GenKinds] : n \in 0..MaxGenFiles}}

NoGenInput == GenInput(<<>>)

MaxFilterFiles == 2

\* contents at and around the limits of the skip test: empty, one
\* character, ten characters, the ceiling and one more; no control
\* character, a tenth of the length and one more; with and without '\0'
FilterContents ==
  {c \in [id : {"F"}, len : {0, 1, 10, sizeCeiling, sizeCeiling + 1},
          nul : BOOLEAN, ctrl : {0, 1, 2, 10000, 10001}] :
     /\ c.ctrl + (IF c.nul THEN 1 ELSE 0) <= c.len}

FilterFile(content, i) ==
  [path |-> <<GenNames[i], "py">>, content |-> content,
   language |-> detectLanguage(<<GenNames[i], "py">>)]

\* lists of files with these contents; the embedding call of the files in
\* apiFail throws
FilterInputs ==
  {[kinds |-> <<>>,
    files |-> [i \in 1..Len(cs) |-> FilterFile(cs[i], i)],
    apiFail |-> apiFail] :
     cs \in UNION {[1..n -> FilterContents] : n \in 1..MaxFilterFiles},
     apiFail \in {{}, {1}}}

NotCalled == [called |-> FALSE, result |-> <<>>]

\* a caller invokes embeddingService.generateEmbeddings(files, 1, c1, main)
GenCall ==
  /\ ~genOut.called
  /\ genOut' = [called |-> TRUE,
                result |-> generateEmbeddings(genIn.files, 1, "c1", "main",
                                              genIn.apiFail, 1)]
  /\ UNCHANGED <<dbVars, dataType, branchHead, clock, faults, runVars, genIn,
                 searchOut, schema, par, chunkOut, langOut, auth, workdir>>

-----------------------------------------------------------------------------
(* Search: searchSimilarCode, searchSimilarCodeAcrossProjects, searchCode *)

MaxLimit == 2

SearchLimits == 0..MaxLimit

\* the query strings of the requests; "" is the missing query
Queries == {"", "Q1", "Q2"}

\* projectId of the request; 0 is the missing (falsy) projectId
SearchProjects == {0, 1, 2}

\* embedding <=> $1, the cosine distance of pgvector, in hundredths
CosineDistance(v, q) ==
  CASE v = q -> 0
    [] v[2] = "A1" /\ q[2] = "Q1" -> 10
    [] v[2] = "A2" /\ q[2] = "Q1" -> 30
    [] v[2] = "A1" /\ q[2] = "Q2" -> 50
    [] v[2] = "A2" /\ q[2] = "Q2" -> 20
    [] OTHER -> 100

\* ORDER BY key: every order of the rows in which the keys ascend
SortedBy(S, key) ==
  {s \in [1..Cardinality(S) -> S] :
     \A i, j \in 1..Cardinality(S) :
       i < j => s[i] # s[j] /\ key[s[i]] <= key[s[j]]}

\* LIMIT n
Limit(s, n) == SubSeq(s, 1, Min(n, Len(s)))

\* the select list of the ranked query: the columns and
\* 1 - (embedding <=> $1) as similarity
RankedRow(row, q) ==
  [projectId |-> row.projectId, repositoryUrl |-> row.repositoryUrl,
   filePath |-> row.filePath, content |-> row.content,
   embedding |-> row.embedding.value, language |-> row.language,
   commitId |-> row.commitId, branch |-> row.branch,
   createdAt |-> row.createdAt, updatedAt |-> row.updatedAt,
   similarity |-> 100 - CosineDistance(row.embedding.value, q)]

\* the select list of the fallback query, and the JSON.parse of its map
BasicRow(row) ==
  [row EXCEPT !.embedding =
     IF ~isVector /\ row.embedding.type = "jsonb"
       THEN Tail(row.embedding.value)
       ELSE row.embedding.value]

\* SELECT .., 1 - (embedding <=> $1) as similarity FROM embeddings [WHERE ..]
\* ORDER BY embedding <=> $1 LIMIT $3
RankedQueryByUpdatedAt(rows, q, limit) ==
  {Limit([i \in DOMAIN s |-> RankedRow(s[i], q)], limit) :
     s \in SortedBy(rows, [row \in rows |-> 0 - row.updatedAt])}

RankedQuery(rows, q, limit) ==
  {Limit([i \in DOMAIN s |-> RankedRow(s[i], q)], limit) :
     s \in SortedBy(rows, [row \in rows |->
                               CosineDistance(row.embedding.value, q)])}

\* SELECT .. FROM embeddings [WHERE ..] ORDER BY updated_at DESC LIMIT $2
BasicQuery(rows, limit) ==
  {Limit([i \in DOMAIN s |-> BasicRow(s[i])], limit) :
     s \in SortedBy(rows, [row \in rows |-> 0 - row.updatedAt])}

\* a fallback that ranks by the query vector without the similarity column
SearchOutcomesFallbackRanks(rows, q, limit) ==
  {[threw |-> FALSE, path |-> IF isVector THEN "fallback" ELSE "basic",
    calls |-> <<"data_type", "basic">>,
    rows |-> [i \in DOMAIN res |->
                [f \in DOMAIN res[i] \ {"similarity"} |-> res[i][f]]]] :
     res \in RankedQuery({[row EXCEPT !.embedding =
                             [type |-> "vector", value |-> BasicRow(row).embedding]] :
                            row \in rows}, q, limit)}

\* The outcomes of one search over the rows in scope: the data_type query
\* throws (the outer catch rethrows); the ranked query answers; the ranked
\* query throws or the column is no vector, and the fallback query answers or
\* throws.
SearchOutcomes(rows, q, limit) ==
  LET fallback == IF isVector THEN <<"data_type", "ranked", "basic">>
                  ELSE <<"data_type", "basic">>
  IN {[threw |-> TRUE, path |-> "data_type", calls |-> <<"data_type">>,
       rows |-> <<>>]}
       \cup (IF isVector
               THEN {[threw |-> FALSE, path |-> "ranked",
                      calls |-> <<"data_type", "ranked">>, rows |-> res] :
                       res \in RankedQuery(rows, q, limit)}
               ELSE {})
       \cup {[threw |-> FALSE,
              path |-> IF isVector THEN "fallback" ELSE "basic",
              calls |-> fallback, rows |-> res] :
                res \in BasicQuery(rows, limit)}
       \cup {[threw |-> TRUE,
              path |-> IF isVector THEN "fallback" ELSE "basic",
              calls |-> fallback, rows |-> <<>>]}

searchSimilarCode(table, projectId, embedding, limit) ==
  SearchOutcomes({row \in table : row.projectId = projectId}, embedding, limit)

searchSimilarCodeAcrossProjects(table, embedding, limit) ==
  SearchOutcomes(table, embedding, limit)

\* a result object that is the row as the search returned it
ResponseResultWholeRow(result) == result

\* results.map(result => ({ projectId, .., createdAt })) of searchCode
ResponseResult(result) ==
  [projectId |-> result.projectId, repositoryUrl |-> result.repositoryUrl,
   filePath |-> result.filePath, language |-> result.language,
   content |-> result.content, commitId |-> result.commitId,
   branch |-> result.branch, createdAt |-> result.createdAt]

\* the 404 and 200 bodies of searchCode (the timestamp left out)
SearchResponse(query, results, analysis) ==
  IF results = <<>>
    THEN [status |-> 404, query |-> query, results |-> <<>>,
          analysis |-> "null", count |-> 0]
    ELSE [status |-> 200, query |-> query,
          results |-> [i \in DOMAIN results |-> ResponseResult(results[i])],
          analysis |-> analysis, count |-> Len(results)]

ErrorResponse(status) ==
  [status |-> status, query |-> "", results |-> <<>>, analysis |-> "null",
   count |-> 0]

NotSearched ==
  [called |-> FALSE, query |-> "", projectId |-> 0, limit |-> 0,
   analyze |-> FALSE, path |-> "", calls |-> <<>>, threw |-> FALSE,
   results |-> <<>>, response |-> ErrorResponse(0)]

\* if (projectId) searchSimilarCode(..) else searchSimilarCodeAcrossProjects(..)
SearchCall(table, query, projectId, limit) ==
  IF projectId # 0
    THEN searchSimilarCode(table, projectId, Embed(Text(query)), limit)
    ELSE searchSimilarCodeAcrossProjects(table, Embed(Text(query)), limit)

\* a handler that asks for the embedding before it looks at the query
searchCodeEmbedsFirst(query, projectId, limit, analyze) ==
  /\ searchOut' = [called |-> TRUE, query |-> query,
                   projectId |-> projectId, limit |-> limit,
                   analyze |-> analyze, path |-> "",
                   calls |-> <<"generateEmbedding">>,
                   threw |-> FALSE, results |-> <<>>,
                   response |-> ErrorResponse(IF query = "" THEN 400 ELSE 500)]
  /\ UNCHANGED <<dbVars, dataType, branchHead, clock, faults, runVars, genIn,
                 genOut, schema, par, chunkOut, langOut, auth, workdir>>

\* POST /api/search: searchCode(req, res)
searchCode(query, projectId, limit, analyze) ==
  /\ \/ /\ query = ""
        /\ searchOut' = [called |-> TRUE, query |-> query,
                         projectId |-> projectId, limit |-> limit,
                         analyze |-> analyze, path |-> "", calls |-> <<>>,
                         threw |-> FALSE, results |-> <<>>,
                         response |-> ErrorResponse(400)]
     \/ /\ query # ""
        \* embeddingService.generateEmbedding(query) throws
        /\ searchOut' = [called |-> TRUE, query |-> query,
                         projectId |-> projectId, limit |-> limit,
                         analyze |-> analyze, path |-> "generateEmbedding",
                         calls |-> <<"generateEmbedding">>,
                         threw |-> TRUE, results |-> <<>>,
                         response |-> ErrorResponse(500)]
     \/ /\ query # ""
        /\ \E o \in SearchCall(embeddings, query, projectId, limit) :
             searchOut' =
               [called |-> TRUE, query |-> query, projectId |-> projectId,
                limit |-> limit, analyze |-> analyze, path |-> o.path,
                calls |-> <<"generateEmbedding">> \o o.calls
                            \o (IF analyze /\ ~o.threw /\ o.rows # <<>>
                                  THEN <<"analyzeCode">> ELSE <<>>),
                threw |-> o.threw, results |-> o.rows,
                response |->
                  IF o.threw THEN ErrorResponse(500)
                  ELSE SearchResponse(query, o.rows,
                                      IF analyze /\ o.rows # <<>>
                                        THEN "analysis" ELSE "null")]
  /\ UNCHANGED <<dbVars, dataType, branchHead, clock, faults, runVars, genIn,
                 genOut, schema, par, chunkOut, langOut, auth, workdir>>

-----------------------------------------------------------------------------
(* The batched loops of generateEmbeddings and getAllFiles *)

MaxLoopFiles == 6

MaxTreeFiles == 11

\* const batchSize = 10 of getAllFiles
treeBatchSize == 10

\* embed: generateEmbeddings over n files, those in skip failing the skip
\* test; fetch: getAllFiles over n blobs
Loop(kind, n, skip) ==
  [kind |-> kind, n |-> n, skip |-> skip, i |-> 0, pc |-> "for",
   status |-> [k \in 1..n |-> "pending"]]

NoLoop == Loop("none", 0, {})

Loops ==
  {Loop("embed", n, skip) : n \in 0..MaxLoopFiles, skip \in SUBSET {2, 6}}
    \cup {Loop("fetch", n, {}) : n \in 0..MaxTreeFiles}

BatchSizeOf(loop) == IF loop.kind = "embed" THEN batchSize ELSE treeBatchSize

\* files.slice(i, i + batchSize)
Batch(loop) ==
  {k \in 1..loop.n : loop.i < k /\ k <= loop.i + BatchSizeOf(loop)}

InFlight(loop) == {k \in 1..loop.n : loop.status[k] = "inflight"}

\* the loop header, then batch.map(async (file) => ..): the callback of
\* every file of the slice runs up to its first await; a skipped file's
\* promise is resolved with null at once
LoopMap ==
  /\ par.pc = "for"
  /\ IF par.i < par.n
       THEN par' = [par EXCEPT
                      !.pc = "await",
                      !.status = [k \in 1..par.n |->
                                    IF k \in Batch(par)
                                      THEN IF k \in par.skip THEN "skipped"
                                           ELSE "inflight"
                                      ELSE par.status[k]]]
       ELSE par' = [par EXCEPT !.pc = "returned"]
  /\ UNCHANGED <<dbVars, dataType, branchHead, clock, faults, runVars, genIn,
                 genOut, searchOut, schema, chunkOut, langOut, auth, workdir>>

\* the awaited call of one callback settles: generateEmbedding returns a
\* vector or throws into the callback's catch; getFileContent returns the
\* content or ''
LoopCallSettles(k, outcome) ==
  /\ par.status[k] = "inflight"
  /\ outcome = "ok" \/ par.kind = "embed"
  /\ par' = [par EXCEPT !.status[k] = outcome]
  /\ UNCHANGED <<dbVars, dataType, branchHead, clock, faults, runVars, genIn,
                 genOut, searchOut, schema, chunkOut, langOut, auth, workdir>>

\* a join that continues as soon as one promise of the batch is settled
LoopJoinFirst ==
  /\ par.pc = "await"
  /\ \E k \in Batch(par) : par.status[k] # "inflight"
  /\ par' = [par EXCEPT
               !.i = @ + BatchSizeOf(par),
               !.pc = IF par.kind = "embed" /\ par.i + BatchSizeOf(par) < par.n
                        THEN "delay" ELSE "for"]
  /\ UNCHANGED <<dbVars, dataType, branchHead, clock, faults, runVars, genIn,
                 genOut, searchOut, schema, chunkOut, langOut, auth, workdir>>

\* await Promise.all(batchPromises): no callback rejects, so it resolves
\* when every promise of the batch is settled; then the push and i +=
\* batchSize
LoopJoin ==
  /\ par.pc = "await"
  /\ \A k \in Batch(par) : par.status[k] # "inflight"
  /\ par' = [par EXCEPT
               !.i = @ + BatchSizeOf(par),
               !.pc = IF par.kind = "embed" /\ par.i + BatchSizeOf(par) < par.n
                        THEN "delay" ELSE "for"]
  /\ UNCHANGED <<dbVars, dataType, branchHead, clock, faults, runVars, genIn,
                 genOut, searchOut, schema, chunkOut, langOut, auth, workdir>>

\* await new Promise(resolve => setTimeout(resolve, 1000))
LoopDelay ==
  /\ par.pc = "delay"
  /\ par' = [par EXCEPT !.pc = "for"]
  /\ UNCHANGED <<dbVars, dataType, branchHead, clock, faults, runVars, genIn,
                 genOut, searchOut, schema, chunkOut, langOut, auth, workdir>>

-----------------------------------------------------------------------------
(* chunkCodeFile *)

MaxLines == 3

\* maxChunkSize: number = 8000
maxChunkSize == 8000

\* the lengths of the lines of the files under test
LineLengths == {0, 99, 4000, 4999, 7999, 8000, 20000}

\* file.content.split('\n'): a content is the sequence of its lines; line no
\* has len characters
ContentOf(lens) == [no \in 1..Len(lens) |-> [no |-> no, len |-> lens[no]]]

Contents == {ContentOf(lens) : lens \in UNION {[1..n -> LineLengths] : n \in 1..MaxLines}}

RECURSIVE SumLen(_)
SumLen(lines) ==
  IF lines = <<>> THEN 0 ELSE Head(lines).len + SumLen(Tail(lines))

\* file.content.length: the lines and the '\n' between them
ContentLength(lines) == SumLen(lines) + Len(lines) - 1

\* currentChunk.length: every line of it is followed by '\n'
ChunkLength(lines) == SumLen(lines) + Len(lines)

CodeFileOf(lines) == [path |-> PathA, content |-> lines, language |-> "python"]

NoFile == CodeFileOf(ContentOf(<<0>>))

\* { ...file, path: `${file.path}#chunk${chunkIndex}`, content: currentChunk }
ChunkOf(file, chunkIndex, currentChunk) ==
  [path |-> <<file.path, "#chunk", chunkIndex>>, content |-> currentChunk,
   language |-> file.language]

\* for (const line of lines) and the push after it
RECURSIVE ChunkLines(_, _, _, _, _, _)
ChunkLines(file, lines, currentChunk, chunkIndex, chunks, max) ==
  IF lines = <<>>
    THEN IF currentChunk # <<>>
           THEN Append(chunks, ChunkOf(file, chunkIndex, currentChunk))
           ELSE chunks
    ELSE IF ChunkLength(currentChunk) + Head(lines).len + 1 > max
      THEN ChunkLines(file, Tail(lines), <<Head(lines)>>, chunkIndex + 1,
                      Append(chunks, ChunkOf(file, chunkIndex, currentChunk)),
                      max)
      ELSE ChunkLines(file, Tail(lines), Append(currentChunk, Head(lines)),
                      chunkIndex, chunks, max)

\* chunkCodeFile(file, maxChunkSize): the file itself when its content is
\* empty or not longer than maxChunkSize
chunkCodeFile(file, max) ==
  IF ContentLength(file.content) = 0 \/ ContentLength(file.content) <= max
    THEN <<file>>
    ELSE ChunkLines(file, file.content, <<>>, 0, <<>>, max)

NotChunked(file) == [called |-> FALSE, file |-> file, result |-> <<>>]

\* a caller invokes embeddingService.chunkCodeFile(file)
ChunkCall ==
  /\ ~chunkOut.called
  /\ chunkOut' = [called |-> TRUE, file |-> chunkOut.file,
                  result |-> chunkCodeFile(chunkOut.file, maxChunkSize)]
  /\ UNCHANGED <<dbVars, dataType, branchHead, clock, faults, runVars, genIn,
                 genOut, searchOut, schema, par, langOut, auth, workdir>>

-----------------------------------------------------------------------------
(* detectLanguage of GitLabService and of RepositoryService *)

MaxSegments == 3

\* the parts of a path between its dots
Segments ==
  {"", "a", "src/", "py", "PY", "ts", "h", "xml", "bin", "constructor",
   "Constructor", "__proto__"}

\* file paths: no dot, one dot, several dots, upper case, a dotfile, a dot at
\* the end; a path does not end with a directory
Paths ==
  {path \in UNION {[1..n -> Segments] : n \in 1..MaxSegments} :
     ~EndsWithSlash(path[Len(path)])}

NotClassified(path) ==
  [called |-> FALSE, path |-> path, provider |-> "", local |-> "", again |-> ""]

\* the secret is not set and no request has arrived
NoAuth ==
  [secret |-> "", token |-> [r \in Runs |-> ""], status |-> [r \in Runs |-> ""]]

\* getAllFiles and getFilesRecursively classify the path; the provider
\* adapter is asked a second time
LanguageCall ==
  /\ ~langOut.called
  /\ langOut' = [called |-> TRUE, path |-> langOut.path,
                 provider |-> detectLanguage(langOut.path),
                 local |-> detectLanguageLocal(langOut.path),
                 again |-> detectLanguage(langOut.path)]
  /\ UNCHANGED <<dbVars, dataType, branchHead, clock, faults, runVars, genIn,
                 genOut, searchOut, schema, par, chunkOut, auth, workdir>>

-----------------------------------------------------------------------------
(* Schema: connect, initializeSchema *)

MaxInits == 2

Tables == {"projects", "embeddings", "batches"}

\* the store before the first connect
EmptySchema ==
  [tables |-> {}, embedding |-> "none", extension |-> FALSE, indexes |-> {},
   inits |-> 0, check |-> "", threw |-> FALSE]

\* CREATE TABLE IF NOT EXISTS name; type is the type of embeddings.embedding
CreateTableReplacing(sch, name, type) ==
  [sch EXCEPT !.tables = @ \cup {name},
              !.embedding = IF name = "embeddings" THEN type ELSE @]

CreateTableIfNotExists(sch, name, type) ==
  IF name \in sch.tables THEN sch
  ELSE [sch EXCEPT !.tables = @ \cup {name},
                   !.embedding = IF name = "embeddings" THEN type ELSE @]

\* CREATE EXTENSION IF NOT EXISTS vector
CreateExtension(sch) == [sch EXCEPT !.extension = TRUE]

\* CREATE INDEX IF NOT EXISTS name
CreateIndex(sch, name) == [sch EXCEPT !.indexes = @ \cup {name}]

\* the answers of SELECT 1 FROM pg_available_extensions WHERE name = 'vector'
ExtensionChecks == {"available", "absent", "error"}

\* the statement of the vector branch that fails, caught by its try
VectorFailures == {"none", "extension", "table", "index"}

\* the statement outside the vector branch that fails and ends the run
FatalFailures == {"none", "projects", "embeddings", "batches", "indexes"}

\* the vector branch: CREATE EXTENSION, CREATE TABLE embeddings with
\* vector(1536), CREATE INDEX .. USING ivfflat; the index cannot be built on
\* a column that is no vector
VectorBranch(sch, vecFail) ==
  IF vecFail = "extension" THEN sch
  ELSE IF vecFail = "table" THEN CreateExtension(sch)
  ELSE LET created ==
             CreateTableIfNotExists(CreateExtension(sch), "embeddings", "vector")
       IN IF vecFail = "index" \/ created.embedding # "vector" THEN created
          ELSE CreateIndex(created, "idx_embeddings_embedding")

\* the store after initializeSchema, statement by statement
SchemaAfter(sch, check, vecFail, fatal) ==
  LET available == check = "available"
      vector == available /\ vecFail \in {"none", "index"}
      \* the JSONB statement is not run, so cannot fail, after the vector one
      failed == IF fatal = "embeddings" /\ vector THEN "none" ELSE fatal
      s1 == IF failed = "projects" THEN sch
            ELSE CreateTableIfNotExists(sch, "projects", "none")
      s2 == IF failed = "projects" \/ ~available THEN s1
            ELSE VectorBranch(s1, vecFail)
      s3 == IF failed \in {"projects", "embeddings"} \/ vector THEN s2
            ELSE CreateTableIfNotExists(s2, "embeddings", "jsonb")
      s4 == IF failed \in {"projects", "embeddings", "batches"} THEN s3
            ELSE CreateTableIfNotExists(s3, "batches", "none")
      s5 == IF failed # "none" THEN s4
            ELSE CreateIndex(CreateIndex(CreateIndex(s4,
                   "idx_embeddings_project_id"), "idx_embeddings_commit_id"),
                   "idx_batches_project_id_commit_id")
  IN [s5 EXCEPT !.inits = sch.inits + 1, !.check = check,
                !.threw = (failed # "none")]

\* the store of the other specifications: initialized once, without failure
InitializedSchema(type) ==
  [SchemaAfter(EmptySchema, IF type = "vector" THEN "available" ELSE "absent",
               "none", "none") EXCEPT !.inits = 0]

\* the answer of the data_type query for embeddings.embedding
DataTypeOf(sch) == IF sch.embedding = "vector" THEN "vector" ELSE "jsonb"

\* connect of a starting process: initializeSchema, its error swallowed
initializeSchema(check, vecFail, fatal) ==
  /\ schema.inits < MaxInits
  /\ check = "available" \/ vecFail = "none"
  /\ schema' = SchemaAfter(schema, check, vecFail, fatal)
  /\ dataType' = DataTypeOf(schema')
  /\ UNCHANGED <<dbVars, branchHead, clock, faults, runVars, genIn, genOut,
                 searchOut, par, chunkOut, langOut, auth, workdir>>

\* a write of dbService once the embeddings table exists
SchemaWrite(e) ==
  /\ "embeddings" \in schema.tables
  /\ saveEmbedding(e)

-----------------------------------------------------------------------------

Init ==
  /\ embeddings = {}
  /\ batches = <<>>
  /\ projects = {}
  /\ dataType \in {"vector", "jsonb"}
  /\ branchHead = "c1"
  /\ clock = 0
  /\ faults = 0
  /\ pc = [r \in Runs |-> "idle"]
  /\ event = [r \in Runs |-> Null]
  /\ meta = [r \in Runs |-> Null]
  /\ files = [r \in Runs |-> <<>>]
  /\ embs = [r \in Runs |-> <<>>]
  /\ inTx = [r \in Runs |-> FALSE]
  /\ rowIdx = [r \in Runs |-> 0]
  /\ trace = [r \in Runs |-> <<>>]
  /\ genIn = NoGenInput
  /\ genOut = NotCalled
  /\ searchOut = NotSearched
  /\ schema = InitializedSchema(dataType)
  /\ par = NoLoop
  /\ chunkOut = NotChunked(NoFile)
  /\ langOut = NotClassified(PathA)
  /\ auth = NoAuth
  /\ workdir = [r \in Runs |-> "none"]

Next ==
  \/ \E r \in Runs : processWebhook(r)
  \/ \E r \in Runs : getProjectMetadata(r)
  \/ \E r \in Runs : getProject(r)
  \/ \E r \in Runs : getAllFiles(r)
  \/ \E r \in Runs : generateEmbeddingsStep(r)
  \/ \E r \in Runs : saveEmbeddingsBegin(r)
  \/ \E r \in Runs : saveEmbeddingsRow(r)
  \/ \E r \in Runs : saveEmbeddingsCommit(r)
  \/ \E r \in Runs : saveEmbeddingsRollback(r)
  \/ \E r \in Runs : saveBatch(r)
  \/ \E r \in Runs : updateProjectMetadata(r)
  \/ \E r \in Runs : callFails(r)
  \/ BranchAdvance

Spec == Init /\ [][Next]_vars

\* the steps of run r that follow its arrival and are not injected failures
RunStep(r) ==
  \/ getProjectMetadata(r)
  \/ getProject(r)
  \/ getAllFiles(r)
  \/ generateEmbeddingsStep(r)
  \/ saveEmbeddingsBegin(r)
  \/ saveEmbeddingsRow(r)
  \/ saveEmbeddingsCommit(r)
  \/ saveBatch(r)
  \/ updateProjectMetadata(r)

\* webhook requests delivered one after the other
LiveNext ==
  \/ \E r \in Runs : (\A q \in 1..(r - 1) : pc[q] \in Terminal) /\ processWebhook(r)
  \/ \E r \in Runs : RunStep(r)
  \/ \E r \in Runs : saveEmbeddingsRollback(r)
  \/ \E r \in Runs : callFails(r)

\* every call a run awaits returns or fails
LiveSpec == Init /\ [][LiveNext]_vars /\ \A r \in Runs : WF_vars(RunStep(r))

\* Webhook requests and clone-based ingestion requests together
IngestNext ==
  \/ \E r \in Runs : processWebhook(r)
  \/ \E r \in Runs : getProjectMetadata(r)
  \/ \E r \in Runs : getProject(r)
  \/ \E r \in Runs : getAllFiles(r)
  \/ \E r \in Runs : generateEmbeddingsStep(r)
  \/ \E r \in Runs : saveEmbeddingsBegin(r)
  \/ \E r \in Runs : saveEmbeddingsRow(r)
  \/ \E r \in Runs : saveEmbeddingsCommit(r)
  \/ \E r \in Runs : saveEmbeddingsRollback(r)
  \/ \E r \in Runs : saveBatch(r)
  \/ \E r \in Runs : updateProjectMetadata(r)
  \/ \E r \in Runs : callFails(r)
  \/ \E r \in Runs : processRepository(r)
  \/ \E r \in Runs : cloneRepository(r)
  \/ \E r \in Runs : getFilesFromLocalRepo(r)
  \/ \E r \in Runs : cloneGetProjectMetadata(r)
  \/ \E r \in Runs : saveProjectMetadata(r)
  \/ \E r \in Runs : cloneGenerateEmbeddings(r)
  \/ \E r \in Runs : cloneSaveBatch(r)
  \/ \E r \in Runs : cloneUpdateProjectMetadata(r)
  \/ \E r \in Runs : cloneCatch(r)
  \/ \E r \in Runs : cloneCallFails(r)

IngestSpec == Init /\ [][IngestNext]_vars

\* The storage service under direct calls: one caller of saveEmbeddings,
\* interleaved with saveEmbedding calls of others.
StoreInit ==
  /\ embeddings = {}
  /\ batches = <<>>
  /\ projects = {}
  /\ dataType \in {"vector", "jsonb"}
  /\ branchHead = "c1"
  /\ clock = 0
  /\ faults = 0
  /\ pc = [r \in Runs |-> "idle"]
  /\ event = [r \in Runs |-> Null]
  /\ meta = [r \in Runs |-> Null]
  /\ files = [r \in Runs |-> <<>>]
  /\ embs = [r \in Runs |-> <<>>]
  /\ inTx = [r \in Runs |-> FALSE]
  /\ rowIdx = [r \in Runs |-> 0]
  /\ trace = [r \in Runs |-> <<>>]
  /\ genIn = NoGenInput
  /\ genOut = NotCalled
  /\ searchOut = NotSearched
  /\ schema = InitializedSchema(dataType)
  /\ par = NoLoop
  /\ chunkOut = NotChunked(NoFile)
  /\ langOut = NotClassified(PathA)
  /\ auth = NoAuth
  /\ workdir = [r \in Runs |-> "none"]

StoreNext ==
  \/ StoreCall(1)
  \/ saveEmbeddingsBegin(1)
  \/ saveEmbeddingsRow(1)
  \/ saveEmbeddingsCommit(1)
  \/ saveEmbeddingsRollback(1)
  \/ \E e \in StoreRows : saveEmbedding(e)

StoreSpec == StoreInit /\ [][StoreNext]_vars

\* generateEmbeddings as a function of its input
GenInit ==
  /\ embeddings = {}
  /\ batches = <<>>
  /\ projects = {}
  /\ dataType = "vector"
  /\ branchHead = "c1"
  /\ clock = 0
  /\ faults = 0
  /\ pc = [r \in Runs |-> "idle"]
  /\ event = [r \in Runs |-> Null]
  /\ meta = [r \in Runs |-> Null]
  /\ files = [r \in Runs |-> <<>>]
  /\ embs = [r \in Runs |-> <<>>]
  /\ inTx = [r \in Runs |-> FALSE]
  /\ rowIdx = [r \in Runs |-> 0]
  /\ trace = [r \in Runs |-> <<>>]
  /\ genIn \in GenInputs
  /\ genOut = NotCalled
  /\ searchOut = NotSearched
  /\ schema = InitializedSchema(dataType)
  /\ par = NoLoop
  /\ chunkOut = NotChunked(NoFile)
  /\ langOut = NotClassified(PathA)
  /\ auth = NoAuth
  /\ workdir = [r \in Runs |-> "none"]

GenNext == GenCall

GenSpec == GenInit /\ [][GenNext]_vars

\* one request to POST /api/search over a relation written by saveEmbedding
\* calls before and after it
SearchRequest ==
  /\ ~searchOut.called
  /\ \E query \in Queries, projectId \in SearchProjects,
        limit \in SearchLimits, analyze \in BOOLEAN :
       searchCode(query, projectId, limit, analyze)

SearchNext ==
  \/ \E e \in StoreRows : saveEmbedding(e)
  \/ SearchRequest

SearchSpec == StoreInit /\ [][SearchNext]_vars

\* processes that start (connect) against one store, and writes between them
SchemaInit ==
  /\ embeddings = {}
  /\ batches = <<>>
  /\ projects = {}
  /\ dataType = "jsonb"
  /\ branchHead = "c1"
  /\ clock = 0
  /\ faults = 0
  /\ pc = [r \in Runs |-> "idle"]
  /\ event = [r \in Runs |-> Null]
  /\ meta = [r \in Runs |-> Null]
  /\ files = [r \in Runs |-> <<>>]
  /\ embs = [r \in Runs |-> <<>>]
  /\ inTx = [r \in Runs |-> FALSE]
  /\ rowIdx = [r \in Runs |-> 0]
  /\ trace = [r \in Runs |-> <<>>]
  /\ genIn = NoGenInput
  /\ genOut = NotCalled
  /\ searchOut = NotSearched
  /\ schema = EmptySchema
  /\ par = NoLoop
  /\ chunkOut = NotChunked(NoFile)
  /\ langOut = NotClassified(PathA)
  /\ auth = NoAuth
  /\ workdir = [r \in Runs |-> "none"]

SchemaNext ==
  \/ \E check \in ExtensionChecks, vecFail \in VectorFailures,
        fatal \in FatalFailures :
       initializeSchema(check, vecFail, fatal)
  \/ \E e \in StoreRows : SchemaWrite(e)

SchemaSpec == SchemaInit /\ [][SchemaNext]_vars

\* the two authenticated API requests: one POST /api/search and one
\* POST /api/repositories/embed with its background run
RequestNext ==
  \/ SearchRequest
  \/ processRepository(1)
  \/ cloneRepository(1)
  \/ getFilesFromLocalRepo(1)
  \/ cloneGetProjectMetadata(1)
  \/ saveProjectMetadata(1)
  \/ cloneGenerateEmbeddings(1)
  \/ saveEmbeddingsBegin(1)
  \/ saveEmbeddingsRow(1)
  \/ saveEmbeddingsCommit(1)
  \/ saveEmbeddingsRollback(1)
  \/ cloneSaveBatch(1)
  \/ cloneUpdateProjectMetadata(1)
  \/ cloneCatch(1)
  \/ cloneCallFails(1)

RequestSpec == Init /\ [][RequestNext]_vars

\* one call of generateEmbeddings or of getAllFiles, call by call
LoopInit ==
  /\ embeddings = {}
  /\ batches = <<>>
  /\ projects = {}
  /\ dataType = "vector"
  /\ branchHead = "c1"
  /\ clock = 0
  /\ faults = 0
  /\ pc = [r \in Runs |-> "idle"]
  /\ event = [r \in Runs |-> Null]
  /\ meta = [r \in Runs |-> Null]
  /\ files = [r \in Runs |-> <<>>]
  /\ embs = [r \in Runs |-> <<>>]
  /\ inTx = [r \in Runs |-> FALSE]
  /\ rowIdx = [r \in Runs |-> 0]
  /\ trace = [r \in Runs |-> <<>>]
  /\ genIn = NoGenInput
  /\ genOut = NotCalled
  /\ searchOut = NotSearched
  /\ schema = InitializedSchema(dataType)
  /\ par \in Loops
  /\ chunkOut = NotChunked(NoFile)
  /\ langOut = NotClassified(PathA)
  /\ auth = NoAuth
  /\ workdir = [r \in Runs |-> "none"]

LoopNext ==
  \/ LoopMap
  \/ \E k \in 1..par.n, outcome \in {"ok", "failed"} : LoopCallSettles(k, outcome)
  \/ LoopJoin
  \/ LoopDelay

LoopSpec == LoopInit /\ [][LoopNext]_vars

\* chunkCodeFile as a function of its input
ChunkInit ==
  /\ embeddings = {}
  /\ batches = <<>>
  /\ projects = {}
  /\ dataType = "vector"
  /\ branchHead = "c1"
  /\ clock = 0
  /\ faults = 0
  /\ pc = [r \in Runs |-> "idle"]
  /\ event = [r \in Runs |-> Null]
  /\ meta = [r \in Runs |-> Null]
  /\ files = [r \in Runs |-> <<>>]
  /\ embs = [r \in Runs |-> <<>>]
  /\ inTx = [r \in Runs |-> FALSE]
  /\ rowIdx = [r \in Runs |-> 0]
  /\ trace = [r \in Runs |-> <<>>]
  /\ genIn = NoGenInput
  /\ genOut = NotCalled
  /\ searchOut = NotSearched
  /\ schema = InitializedSchema(dataType)
  /\ par = NoLoop
  /\ \E content \in Contents : chunkOut = NotChunked(CodeFileOf(content))
  /\ langOut = NotClassified(PathA)
  /\ auth = NoAuth
  /\ workdir = [r \in Runs |-> "none"]

ChunkNext == ChunkCall

ChunkSpec == ChunkInit /\ [][ChunkNext]_vars

\* generateEmbeddings on contents at the limits of its skip test
FilterInit ==
  /\ embeddings = {}
  /\ batches = <<>>
  /\ projects = {}
  /\ dataType = "vector"
  /\ branchHead = "c1"
  /\ clock = 0
  /\ faults = 0
  /\ pc = [r \in Runs |-> "idle"]
  /\ event = [r \in Runs |-> Null]
  /\ meta = [r \in Runs |-> Null]
  /\ files = [r \in Runs |-> <<>>]
  /\ embs = [r \in Runs |-> <<>>]
  /\ inTx = [r \in Runs |-> FALSE]
  /\ rowIdx = [r \in Runs |-> 0]
  /\ trace = [r \in Runs |-> <<>>]
  /\ genIn \in FilterInputs
  /\ genOut = NotCalled
  /\ searchOut = NotSearched
  /\ schema = InitializedSchema(dataType)
  /\ par = NoLoop
  /\ chunkOut = NotChunked(NoFile)
  /\ langOut = NotClassified(PathA)
  /\ auth = NoAuth
  /\ workdir = [r \in Runs |-> "none"]

\* the caller saves what generateEmbeddings returned
FilterStore ==
  /\ pc[1] = "idle"
  /\ genOut.called
  /\ embs' = [embs EXCEPT ![1] = genOut.result]
  /\ event' = [event EXCEPT ![1] = [object_kind |-> "direct"]]
  /\ pc' = [pc EXCEPT ![1] = "saveEmbeddings"]
  /\ UNCHANGED <<dbVars, dataType, branchHead, clock, faults, meta, files,
                 inTx, rowIdx, trace, genVars>>

FilterNext ==
  \/ GenCall
  \/ FilterStore
  \/ saveEmbeddingsBegin(1)
  \/ saveEmbeddingsRow(1)
  \/ saveEmbeddingsCommit(1)
  \/ saveEmbeddingsRollback(1)

FilterSpec == FilterInit /\ [][FilterNext]_vars

\* the steps of the clone-based run r that follow its 202 and are not
\* injected failures of the awaited calls
CloneStep(r) ==
  \/ cloneRepository(r)
  \/ getFilesFromLocalRepo(r)
  \/ cloneGetProjectMetadata(r)
  \/ saveProjectMetadata(r)
  \/ cloneGenerateEmbeddings(r)
  \/ saveEmbeddingsBegin(r)
  \/ saveEmbeddingsRow(r)
  \/ saveEmbeddingsCommit(r)
  \/ cloneSaveBatch(r)
  \/ cloneUpdateProjectMetadata(r)
  \/ cloneCatch(r)

\* clone-based ingestion requests, their runs overlapping
CloneNext ==
  \/ \E r \in Runs : processRepository(r)
  \/ \E r \in Runs : CloneStep(r)
  \/ \E r \in Runs : saveEmbeddingsRollback(r)
  \/ \E r \in Runs : cloneCallFails(r)

\* every call a run awaits returns or throws
CloneSpec == Init /\ [][CloneNext]_vars /\ \A r \in Runs : WF_vars(CloneStep(r))

\* the webhook route with and without a configured secret, requests delivered
\* one after the other
AuthInit ==
  /\ embeddings = {}
  /\ batches = <<>>
  /\ projects = {}
  /\ dataType \in {"vector", "jsonb"}
  /\ branchHead = "c1"
  /\ clock = 0
  /\ faults = 0
  /\ pc = [r \in Runs |-> "idle"]
  /\ event = [r \in Runs |-> Null]
  /\ meta = [r \in Runs |-> Null]
  /\ files = [r \in Runs |-> <<>>]
  /\ embs = [r \in Runs |-> <<>>]
  /\ inTx = [r \in Runs |-> FALSE]
  /\ rowIdx = [r \in Runs |-> 0]
  /\ trace = [r \in Runs |-> <<>>]
  /\ genIn = NoGenInput
  /\ genOut = NotCalled
  /\ searchOut = NotSearched
  /\ schema = InitializedSchema(dataType)
  /\ par = NoLoop
  /\ chunkOut = NotChunked(NoFile)
  /\ langOut = NotClassified(PathA)
  /\ \E secret \in Secrets : auth = [NoAuth EXCEPT !.secret = secret]
  /\ workdir = [r \in Runs |-> "none"]

AuthNext ==
  \/ \E r \in Runs :
       /\ \A q \in 1..(r - 1) : pc[q] \in Terminal \cup {"unauthorized"}
       /\ postWebhook(r)
  \/ \E r \in Runs : RunStep(r)
  \/ \E r \in Runs : saveEmbeddingsRollback(r)
  \/ \E r \in Runs : callFails(r)

AuthSpec == AuthInit /\ [][AuthNext]_vars

\* the two classifiers applied to one path
LangInit ==
  /\ embeddings = {}
  /\ batches = <<>>
  /\ projects = {}
  /\ dataType = "vector"
  /\ branchHead = "c1"
  /\ clock = 0
  /\ faults = 0
  /\ pc = [r \in Runs |-> "idle"]
  /\ event = [r \in Runs |-> Null]
  /\ meta = [r \in Runs |-> Null]
  /\ files = [r \in Runs |-> <<>>]
  /\ embs = [r \in Runs |-> <<>>]
  /\ inTx = [r \in Runs |-> FALSE]
  /\ rowIdx = [r \in Runs |-> 0]
  /\ trace = [r \in Runs |-> <<>>]
  /\ genIn = NoGenInput
  /\ genOut = NotCalled
  /\ searchOut = NotSearched
  /\ schema = InitializedSchema(dataType)
  /\ par = NoLoop
  /\ chunkOut = NotChunked(NoFile)
  /\ \E path \in Paths : langOut = NotClassified(path)
  /\ auth = NoAuth
  /\ workdir = [r \in Runs |-> "none"]

LangNext == LanguageCall

LangSpec == LangInit /\ [][LangNext]_vars

-----------------------------------------------------------------------------
(* Vocabulary of the claims *)

InTrace(r, op) == \E i \in 1..Len(trace[r]) : trace[r][i] = op

IsWebhookRun(r) ==
  /\ pc[r] # "idle"
  /\ event[r].object_kind \in {"push", "merge_request"}

\* run r takes the step
Steps(r) == pc'[r] # pc[r] \/ trace'[r] # trace[r] \/ rowIdx'[r] # rowIdx[r]

\* the stored lastProcessedCommit of project p; Null when p has no row
StoredCommit(p) ==
  LET m == SelectProject(projects, p)
  IN IF m = Null THEN Null ELSE [commit |-> m.lastProcessedCommit]

\* the calls that write to storage, in the order the pipeline is to issue them
WriteRank(op) ==
  CASE op \in {"BEGIN", "upsert", "COMMIT", "ROLLBACK"} -> 1
    [] op = "saveBatch" -> 2
    [] op = "updateProjectMetadata" -> 3
    [] OTHER -> 0

ProviderOps == {"getProject", "getRepositoryTree", "getFileContent"}
EmbeddingOps == {"generateEmbedding"}
StorageWriteOps == {"BEGIN", "upsert", "COMMIT", "ROLLBACK", "saveBatch",
                    "updateProjectMetadata"}

-----------------------------------------------------------------------------
(* C1: in every webhook run the storage writes are issued in the order     *)
(* embeddings upsert, batch insert, metadata update, and no step of the    *)
(* run other than its final metadata update changes the projects relation, *)
(* so a run that stops earlier leaves lastProcessedCommit as it was.       *)

C1_WritesInOrder ==
  \A r \in Runs : IsWebhookRun(r) =>
    /\ \A i \in 1..Len(trace[r]) :
         WriteRank(trace[r][i]) > 1 =>
           \A j \in (i + 1)..Len(trace[r]) :
             WriteRank(trace[r][j]) \notin 1..(WriteRank(trace[r][i]) - 1)
    /\ pc[r] \in {"updateProjectMetadata", "completed"} =>
         /\ InTrace(r, "saveBatch")
         /\ embs[r] # <<>> => InTrace(r, "COMMIT")

C1_MetadataLast ==
  \A r \in Runs :
    (IsWebhookRun(r) /\ Steps(r)
       /\ ~(pc[r] = "updateProjectMetadata" /\ pc'[r] = "completed"))
      => projects' = projects

C1_MetadataUpdatedLast == [](C1_WritesInOrder) /\ [][C1_MetadataLast]_vars

\* a run stopped after its embeddings were committed, and the project's
\* lastProcessedCommit is not that run's commit
C1_Witness ==
  \E r \in Runs :
    /\ IsWebhookRun(r)
    /\ pc[r] = "failed"
    /\ InTrace(r, "COMMIT")
    /\ StoredCommit(event[r].project_id) # [commit |-> commitId(event[r])]

-----------------------------------------------------------------------------
(* C2: a push run whose metadata lookup finds lastProcessedCommit equal to *)
(* the event's after ends there: it has made no provider call, no          *)
(* embedding call and no storage write, and the lookup step leaves the     *)
(* three relations as they were.                                           *)

C2_NoWork ==
  \A r \in Runs :
    (IsWebhookRun(r) /\ pc[r] = "skippedProcessed") =>
      /\ trace[r] = <<"202", "getProjectMetadata">>
      /\ \A i \in 1..Len(trace[r]) :
           trace[r][i] \notin ProviderOps \cup EmbeddingOps \cup StorageWriteOps

C2_GateStep ==
  \A r \in Runs :
    (/\ IsWebhookRun(r)
     /\ IsPush(event[r])
     /\ pc[r] = "getProjectMetadata"
     /\ pc'[r] \notin {"getProjectMetadata", "failed"}
     /\ StoredCommit(event[r].project_id) = [commit |-> event[r].after])
      => /\ pc'[r] = "skippedProcessed"
         /\ dbVars' = dbVars

C2_ProcessedPushIsNoOp == [](C2_NoWork) /\ [][C2_GateStep]_vars

C2_Witness ==
  \E r \in Runs :
    /\ IsWebhookRun(r)
    /\ IsPush(event[r])
    /\ pc[r] = "skippedProcessed"
    /\ StoredCommit(event[r].project_id) = [commit |-> event[r].after]

-----------------------------------------------------------------------------
(* C3: a merge-request event with action open or update whose last commit  *)
(* equals the stored lastProcessedCommit is skipped: no such run goes on   *)
(* to fetch files while the metadata it looked up names its own commit.    *)

C3_MergeRequestGated ==
  \A r \in Runs :
    (/\ IsWebhookRun(r)
     /\ IsMergeRequest(event[r])
     /\ pc[r] \in {"getAllFiles", "generateEmbeddings", "saveEmbeddings",
                   "upsert", "saveBatch"}
     /\ meta[r] # Null)
      => meta[r].lastProcessedCommit # event[r].last_commit

-----------------------------------------------------------------------------
(* C4: the embeddings relation never holds two rows with the same          *)
(* (projectId, filePath), and after a write of row B for a key, reading    *)
(* the key back yields content, vector, language, commit and branch of B.  *)

KeyRows(table, p, path) ==
  {row \in table : row.projectId = p /\ row.filePath = path}

C4_Unique ==
  \A row1, row2 \in embeddings :
    (row1.projectId = row2.projectId /\ row1.filePath = row2.filePath)
      => row1 = row2

ReadBackIs(e) ==
  LET rows == KeyRows(getEmbeddingsByProject(embeddings, e.projectId),
                      e.projectId, e.filePath)
  IN /\ Cardinality(rows) = 1
     /\ \A row \in rows :
          /\ row.content = e.content
          /\ row.embedding = e.embedding
          /\ row.language = e.language
          /\ row.commitId = e.commitId
          /\ row.branch = e.branch

\* position i holds the last row of es for its key
LastForKey(es, i) ==
  \A j \in (i + 1)..Len(es) :
    es[j].projectId # es[i].projectId \/ es[j].filePath # es[i].filePath

C4_ReadBack ==
  /\ \A e \in StoreRows : saveEmbedding(e) => ReadBackIs(e)'
  /\ \A r \in Runs :
       saveEmbeddingsCommit(r) =>
         \A i \in 1..Len(embs[r]) :
           LastForKey(embs[r], i) => ReadBackIs(embs[r][i])'

C4_OneRowPerKeyLastWriteWins == [](C4_Unique) /\ [][C4_ReadBack]_vars

\* a row written once and then overwritten, next to a row of the same path
\* in another project and a row of another path in the same project
C4_Witness ==
  \E row \in embeddings :
    /\ row.createdAt = 1 /\ row.updatedAt = 2 /\ row.commitId = "c2"
    /\ \E other \in embeddings :
         other.filePath = row.filePath /\ other.projectId # row.projectId
    /\ \E other \in embeddings :
         other.filePath # row.filePath /\ other.projectId = row.projectId

-----------------------------------------------------------------------------
(* C5: saveEmbeddings is atomic per call: no step of a call other than its *)
(* COMMIT changes the embeddings relation, the COMMIT stores every row of  *)
(* the call, and a call in which a statement failed ends by rethrowing,    *)
(* without having committed.                                               *)

InSaveEmbeddings(r) == pc[r] \in {"saveEmbeddings", "upsert"}

C5_Rethrown ==
  \A r \in Runs :
    (trace[r] # <<>> /\ trace[r][Len(trace[r])] = "ROLLBACK") =>
      /\ pc[r] = Threw(r)
      /\ ~InTrace(r, "COMMIT")

C5_Step ==
  \A r \in Runs :
    (InSaveEmbeddings(r) /\ Steps(r)) =>
      IF pc'[r] = Returned(r) /\ embs[r] # <<>>
        THEN \A i \in 1..Len(embs[r]) :
               LastForKey(embs[r], i) => ReadBackIs(embs[r][i])'
        ELSE embeddings' = embeddings

C5_SaveEmbeddingsAtomic == [](C5_Rethrown) /\ [][C5_Step]_vars

\* a call failed after a row of it had been upserted, and no row of the
\* relation comes from that call
C5_Witness ==
  \E r \in Runs :
    /\ trace[r] # <<>> /\ trace[r][Len(trace[r])] = "ROLLBACK"
    /\ rowIdx[r] >= 1
    /\ \A i \in 1..Len(embs[r]) :
         \A row \in KeyRows(embeddings, embs[r][i].projectId, embs[r][i].filePath) :
           row.updatedAt # embs[r][i].updatedAt

-----------------------------------------------------------------------------
(* C6: when two push runs for the same project and commit C have both      *)
(* completed (they overlapped: both passed the gate), every path either    *)
(* stored has exactly one row, with commitId C and the content it was      *)
(* given, and lastProcessedCommit = C.                                     *)

C6_DuplicateRunsConverge ==
  \A r1, r2 \in Runs :
    (/\ r1 # r2
     /\ IsWebhookRun(r1) /\ IsWebhookRun(r2)
     /\ IsPush(event[r1]) /\ IsPush(event[r2])
     /\ event[r1].project_id = event[r2].project_id
     /\ event[r1].after = event[r2].after
     /\ pc[r1] = "completed" /\ pc[r2] = "completed")
      => /\ StoredCommit(event[r1].project_id) = [commit |-> event[r1].after]
         /\ \A i \in 1..Len(embs[r1]) :
              LET rows == KeyRows(embeddings, embs[r1][i].projectId,
                                  embs[r1][i].filePath)
              IN /\ Cardinality(rows) = 1
                 /\ \A row \in rows : /\ row.commitId = event[r1].after
                                      /\ row.content = embs[r1][i].content

C6_Witness ==
  \E r1, r2 \in Runs :
    /\ r1 # r2
    /\ IsWebhookRun(r1) /\ IsWebhookRun(r2)
    /\ IsPush(event[r1]) /\ IsPush(event[r2])
    /\ event[r1].after = event[r2].after
    /\ pc[r1] = "completed" /\ pc[r2] = "completed"
    /\ InTrace(r1, "COMMIT") /\ InTrace(r2, "COMMIT")
    /\ Len(embs[r1]) >= 2

-----------------------------------------------------------------------------
(* C7: once all runs have finished (here: completed, none failed), the     *)
(* rows stored by the run that set the final lastProcessedCommit carry     *)
(* that commit.                                                            *)

C7_RowsCarryFinalCommit ==
  (\A q \in Runs : pc[q] = "completed") =>
    \A r \in Runs :
      (/\ IsWebhookRun(r)
       /\ pc[r] = "completed"
       /\ StoredCommit(event[r].project_id) = [commit |-> commitId(event[r])])
        => \A i \in 1..Len(embs[r]) :
             \A row \in KeyRows(embeddings, embs[r][i].projectId,
                                embs[r][i].filePath) :
               row.commitId = commitId(event[r])

-----------------------------------------------------------------------------
(* C8: a run in which an embedding call failed does not complete: it       *)
(* writes no batch row and does not advance lastProcessedCommit.           *)

C8_EmbeddingErrorFailsRun ==
  \A r \in Runs :
    (IsWebhookRun(r) /\ pc[r] \in {"updateProjectMetadata", "completed"}) =>
      Len(embs[r]) = Cardinality(EmbedCalls(files[r]))

-----------------------------------------------------------------------------
(* C9: generateEmbeddings never throws; a file that is empty, oversized or *)
(* binary, or whose embedding call fails, has no embedding in the result;  *)
(* every other file has exactly one, with the given projectId, commitId    *)
(* and branch.                                                             *)

C9_PerItemIsolation ==
  genOut.called =>
    /\ genOut.result # <<Thrown>>
    /\ \A i \in 1..Len(genIn.kinds) :
         LET hits == {k \in 1..Len(genOut.result) :
                        genOut.result[k].filePath = genIn.files[i].path}
         IN IF genIn.kinds[i] = "ok"
              THEN /\ Cardinality(hits) = 1
                   /\ \A k \in hits :
                        /\ genOut.result[k].projectId = 1
                        /\ genOut.result[k].commitId = "c1"
                        /\ genOut.result[k].branch = "main"
                        /\ genOut.result[k].content = genIn.files[i].content
              ELSE hits = {}

\* more than one batch, with a failed call, a skipped file and a good file
\* after the first batch
C9_Witness ==
  /\ genOut.called
  /\ Len(genIn.kinds) > batchSize
  /\ \E i \in 1..Len(genIn.kinds) : genIn.kinds[i] = "fail"
  /\ \E i \in 1..Len(genIn.kinds) : genIn.kinds[i] = "bin"
  /\ genIn.kinds[Len(genIn.kinds)] = "ok"
  /\ Len(genOut.result) >= 2

-----------------------------------------------------------------------------
(* C10: for every request the 202 is the first thing the handler issues:   *)
(* it precedes the metadata lookup and every provider call, embedding call *)
(* and storage write of the request.                                       *)

C10_AckFirst ==
  \A r \in Runs :
    (pc[r] # "idle" /\ event[r].object_kind # "direct") =>
      /\ trace[r] # <<>>
      /\ trace[r][1] = "202"
      /\ \A i \in 2..Len(trace[r]) : trace[r][i] # "202"

C10_Witness ==
  /\ \E r \in Runs : pc[r] = "ignored" /\ trace[r] = <<"202">>
  /\ \E r \in Runs : pc[r] = "completed" /\ trace[r][1] = "202"

-----------------------------------------------------------------------------
(* C11: for every accepted webhook or clone-ingestion request exactly one  *)
(* response is sent and it is the 202, whatever happens at the later steps *)
(* of the run.                                                             *)

ResponseOps == {"202", "400", "401", "500"}

Responses(r) == {i \in 1..Len(trace[r]) : trace[r][i] \in ResponseOps}

Accepted(r) ==
  /\ pc[r] # "idle"
  /\ event[r].object_kind # "direct"
  /\ IsClone(event[r]) => event[r].repositoryUrl # ""

C11_OnlyTheAcknowledgment ==
  \A r \in Runs :
    Accepted(r) =>
      /\ Cardinality(Responses(r)) = 1
      /\ \A i \in Responses(r) : trace[r][i] = "202"

\* a clone run that failed in its storage transaction, next to a webhook run
\* that went through all its steps
C11_Witness ==
  \E r1, r2 \in Runs :
    /\ IsWebhookRun(r1) /\ pc[r1] = "completed"
    /\ pc[r2] = "failed" /\ IsClone(event[r2]) /\ InTrace(r2, "ROLLBACK")

-----------------------------------------------------------------------------
(* C12: a push event whose after is the all-zero sentinel issues no        *)
(* metadata lookup, no provider call, no embedding call and no storage     *)
(* write, whatever the project's stored state.                             *)

PipelineOps ==
  {"getProjectMetadata"} \cup ProviderOps \cup EmbeddingOps \cup StorageWriteOps

IsDeletion(ev) == IsPush(ev) /\ ev.after = ZeroSha

C12_DeletionDoesNothing ==
  \A r \in Runs :
    (pc[r] # "idle" /\ IsDeletion(event[r])) =>
      /\ pc[r] = "skippedDeletion"
      /\ \A i \in 1..Len(trace[r]) : trace[r][i] \notin PipelineOps

\* a deletion event for a project that has a stored lastProcessedCommit and
\* stored rows
C12_Witness ==
  \E r \in Runs :
    /\ pc[r] = "skippedDeletion"
    /\ IsDeletion(event[r])
    /\ StoredCommit(event[r].project_id) \notin {Null, [commit |-> ""]}
    /\ embeddings # {}

-----------------------------------------------------------------------------
(* C13: a merge-request event whose action is not open or update (a        *)
(* missing action included) and an event that is neither push nor          *)
(* merge_request perform no processing step.                               *)

IsUnsupported(ev) ==
  \/ IsMergeRequest(ev) /\ ev.action \notin {"open", "update"}
  \/ ev.object_kind \notin {"push", "merge_request", "clone", "direct"}

C13_UnsupportedDoesNothing ==
  \A r \in Runs :
    (pc[r] # "idle" /\ IsUnsupported(event[r])) =>
      /\ pc[r] = (IF IsMergeRequest(event[r]) THEN "skippedAction" ELSE "ignored")
      /\ trace[r] = <<"202">>

\* a merge request without action and an event of another kind
C13_Witness ==
  \E r1, r2 \in Runs :
    /\ pc[r1] = "skippedAction" /\ event[r1].action = ""
    /\ pc[r2] = "ignored" /\ event[r2].object_kind = "note"

-----------------------------------------------------------------------------
(* C14: every accepted webhook event eventually reaches a terminal state   *)
(* of the dispatcher (a skipped state, completed or failed), a terminal    *)
(* state is never left, and completed is reached only by the step of the   *)
(* metadata update.                                                        *)

C14_TerminalIsFinal ==
  \A r \in Runs :
    pc[r] \in Terminal =>
      /\ pc'[r] = pc[r]
      /\ trace'[r] = trace[r]

C14_CompletedByMetadataUpdate ==
  \A r \in Runs :
    (IsWebhookRun(r) /\ pc[r] = "completed") =>
      /\ trace[r][Len(trace[r])] = "updateProjectMetadata"
      /\ meta[r].lastProcessedCommit = commitId(event[r])

C14_EveryEventTerminates ==
  /\ \A r \in Runs : (pc[r] # "idle") ~> (pc[r] \in Terminal)
  /\ [][C14_TerminalIsFinal]_vars
  /\ [](C14_CompletedByMetadataUpdate)

\* every terminal state of the dispatcher but failed is reached by some run
C14_Witness ==
  \E r1, r2 \in Runs :
    /\ pc[r1] = "completed"
    /\ pc[r2] = "skippedProcessed"

-----------------------------------------------------------------------------
(* C15: a webhook run whose tree listing failed ends failed without an     *)
(* embedding call and without a storage write.                             *)

\* the tree was requested for a ref that has files and no file was read
TreeListingFailed(r) ==
  /\ IsWebhookRun(r)
  /\ fetchRef(event[r]) # "c0"
  /\ InTrace(r, "getRepositoryTree")
  /\ ~InTrace(r, "getFileContent")

C15_TreeFailureIsFatal ==
  \A r \in Runs :
    TreeListingFailed(r) =>
      /\ pc[r] = "failed"
      /\ files[r] = <<>>
      /\ \A i \in 1..Len(trace[r]) :
           trace[r][i] \notin EmbeddingOps \cup StorageWriteOps

\* the listing failed in a run for a project that already has stored rows
C15_Witness ==
  \E r \in Runs :
    /\ TreeListingFailed(r)
    /\ pc[r] = "failed"
    /\ trace[r][Len(trace[r])] = "getRepositoryTree"
    /\ embeddings # {}

-----------------------------------------------------------------------------
(* C16: the list getAllFiles returns has no entry for a file whose content *)
(* read failed, so no batch row records such a file.                       *)

\* an entry without content for a path that has content at every commit
IsFailedRead(file) ==
  /\ file.content = EmptyContent
  /\ \A c \in Commits : RepoContent(c, file.path) # EmptyContent

C16_FailedReadIsDropped ==
  /\ \A r \in Runs :
       IsWebhookRun(r) =>
         \A i \in 1..Len(files[r]) : ~IsFailedRead(files[r][i])
  /\ \A b \in 1..Len(batches) :
       \A i \in 1..Len(batches[b].files) : ~IsFailedRead(batches[b].files[i])

-----------------------------------------------------------------------------
(* C17: after a completed push run for project P at commit C, with no      *)
(* storage write by another run, the embeddings relation holds exactly one *)
(* row for each eligible file whose embedding call succeeded, none for an  *)
(* ineligible file (empty, oversized, binary) and no other row; every row  *)
(* has commitId C and lastProcessedCommit of P is C.                       *)

\* empty, over the size ceiling, or binary (a null byte, or more than 10%
\* control characters)
Ineligible(content) ==
  \/ content.len = 0
  \/ content.len > 100000
  \/ content.nul
  \/ content.ctrl * 10 > content.len

IsFirstPushRun(r) ==
  /\ IsWebhookRun(r)
  /\ IsPush(event[r])
  /\ pc[r] = "completed"
  /\ \A q \in Runs \ {r} :
       \A i \in 1..Len(trace[q]) : trace[q][i] \notin StorageWriteOps

C17_FirstPushStoresEligibleFiles ==
  \A r \in Runs :
    IsFirstPushRun(r) =>
      LET P == event[r].project_id
          C == event[r].after
          embedded == {embs[r][j].filePath : j \in 1..Len(embs[r])}
      IN /\ StoredCommit(P) = [commit |-> C]
         /\ \A i \in 1..Len(files[r]) :
              LET rows == KeyRows(embeddings, P, files[r][i].path)
              IN IF Ineligible(files[r][i].content)
                   THEN rows = {}
                   ELSE IF files[r][i].path \in embedded
                     THEN /\ Cardinality(rows) = 1
                          /\ \A row \in rows :
                               /\ row.commitId = C
                               /\ row.content = files[r][i].content
                     ELSE rows = {}
         /\ \A row \in embeddings :
              /\ row.projectId = P
              /\ \E i \in 1..Len(files[r]) : files[r][i].path = row.filePath

\* commit c1: a.py and c.ts stored, b.bin (binary) not
C17_Witness ==
  \E r \in Runs :
    /\ IsFirstPushRun(r)
    /\ event[r].after = "c1"
    /\ Cardinality(embeddings) = 2
    /\ Len(files[r]) = 3

-----------------------------------------------------------------------------
(* C18 *)

\* the rows a search of the request is about
Scope(table, projectId) ==
  IF projectId = 0 THEN table
  ELSE {row \in table : row.projectId = projectId}

\* the stored row a returned row was read from
StoredRow(table, res) ==
  {row \in table : row.projectId = res.projectId /\ row.filePath = res.filePath}

\* the stored vector of a returned row
StoredVector(table, res) ==
  (CHOOSE row \in StoredRow(table, res) : TRUE).embedding.value

SearchAnswers(out, path) == out.called /\ ~out.threw /\ out.path = path

\* a step of searchCode: the only step that leaves the relation as it is
SearchStep == searchOut'.called /\ embeddings' = embeddings

QueryVector(out) == Embed(Text(out.query))

\* C18: a search answered by the ranked query returns at most limit rows,
\* all of them stored rows of the scope (the given project, or all projects
\* for the cross-project variant) and no row twice, in ascending cosine
\* distance to the query vector, no row of the scope left out being closer
\* than a returned row, and each returned row carries similarity = 1 -
\* distance.
C18_RankedAnswer ==
  SearchStep /\ SearchAnswers(searchOut', "ranked") =>
    LET out == searchOut'
        q == QueryVector(out)
        scope == Scope(embeddings, out.projectId)
        n == Len(out.results)
        Returned_(row) == \E i \in 1..n : StoredRow({row}, out.results[i]) # {}
    IN /\ n <= out.limit
       /\ \A i \in 1..n :
            /\ StoredRow(scope, out.results[i]) # {}
            /\ out.results[i].similarity =
                 100 - CosineDistance(StoredVector(scope, out.results[i]), q)
       /\ \A i, j \in 1..n :
            i < j =>
              /\ StoredRow({out.results[i]}, out.results[j]) = {}
              /\ CosineDistance(StoredVector(scope, out.results[i]), q)
                   <= CosineDistance(StoredVector(scope, out.results[j]), q)
       /\ \A row \in scope :
            ~Returned_(row) =>
              \A i \in 1..n :
                CosineDistance(row.embedding.value, q)
                  >= CosineDistance(StoredVector(scope, out.results[i]), q)

C18_RankedSearch == [][C18_RankedAnswer]_vars

\* a ranked search of project 1 that left out a row of the project which is
\* farther from the query than the returned one and newer, next to a row of
\* another project
C18_Witness ==
  /\ SearchAnswers(searchOut, "ranked")
  /\ searchOut.projectId = 1
  /\ searchOut.limit = 1
  /\ Len(searchOut.results) = 1
  /\ \E row \in embeddings :
       /\ row.projectId = 1
       /\ row.filePath # searchOut.results[1].filePath
       /\ row.updatedAt > searchOut.results[1].updatedAt
       /\ CosineDistance(row.embedding.value, QueryVector(searchOut))
            > CosineDistance(searchOut.results[1].embedding, QueryVector(searchOut))
  /\ \E row \in embeddings : row.projectId = 2

-----------------------------------------------------------------------------
(* C19 *)

\* C19: without native vector support a search returns at most limit rows
\* of the scope (the given project, or all projects), no row twice, ordered
\* by updated_at descending, no row of the scope left out being newer than
\* a returned row, and the query vector has no part in it: what the search
\* returned for one query vector is an answer of the same search for every
\* other query vector.
C19_RecencyAnswer ==
  SearchStep /\ SearchAnswers(searchOut', "basic") =>
    LET out == searchOut'
        scope == Scope(embeddings, out.projectId)
        n == Len(out.results)
        Returned_(row) == \E i \in 1..n : StoredRow({row}, out.results[i]) # {}
    IN /\ ~isVector
       /\ n = Min(out.limit, Cardinality(scope))
       /\ \A i \in 1..n : StoredRow(scope, out.results[i]) # {}
       /\ \A i, j \in 1..n :
            i < j =>
              /\ StoredRow({out.results[i]}, out.results[j]) = {}
              /\ out.results[i].updatedAt >= out.results[j].updatedAt
       /\ \A row \in scope :
            ~Returned_(row) =>
              \A i \in 1..n : row.updatedAt <= out.results[i].updatedAt
       /\ \A query \in Queries \ {""} :
            \E o \in SearchCall(embeddings, query, out.projectId, out.limit) :
              ~o.threw /\ o.path = "basic" /\ o.rows = out.results

-----------------------------------------------------------------------------
(* C20 *)

Degraded(o) == ~o.threw /\ o.path \in {"fallback", "basic"}

Ranked(o) == ~o.threw /\ o.path = "ranked"

\* C20: over any stored state, for any request whose scope holds a row and
\* whose limit is not 0, the response of POST /api/search built from a
\* degraded answer of the search (the fallback after a failed ranked query
\* included) differs from the response built from a ranked answer of it.
C20_DegradedIsTold ==
  \A query \in Queries \ {""}, projectId \in SearchProjects,
     limit \in SearchLimits \ {0} :
    Scope(embeddings, projectId) # {} =>
      \A ranked, degraded \in
           SearchCall(embeddings, query, projectId, limit) :
        Ranked(ranked) /\ Degraded(degraded) =>
          SearchResponse(query, ranked.rows, "null")
            # SearchResponse(query, degraded.rows, "null")

-----------------------------------------------------------------------------
(* C21 *)

\* the search whose capability-detection (data_type) query failed
DetectionFailed(out) == out.called /\ out.path = "data_type"

\* C21: a search whose capability-detection query failed does not fail: it
\* returns an answer of the recency-ordered query over the scope, and the
\* request is not answered 500.
C21_DetectionFailureFallsBack ==
  SearchStep /\ DetectionFailed(searchOut') =>
    /\ ~searchOut'.threw
    /\ searchOut'.response.status # 500
    /\ searchOut'.results \in
         BasicQuery(Scope(embeddings, searchOut'.projectId), searchOut'.limit)

C21_ReadSurvivesDetectionFailure == [][C21_DetectionFailureFallsBack]_vars

-----------------------------------------------------------------------------
(* C22 *)

\* the store has every table of the schema
Initialized(sch) == Tables \subseteq sch.tables

\* a step of initializeSchema
InitializeStep == schema'.inits = schema.inits + 1

C22_RerunChangesNothing ==
  InitializeStep /\ Initialized(schema) =>
    /\ schema'.tables = schema.tables
    /\ schema'.embedding = schema.embedding
    /\ dataType' = dataType

\* every stored embedding has the representation of the column: written as
\* a vector into a vector column, as JSON into a JSONB column
C22_RepresentationMatches ==
  /\ dataType = DataTypeOf(schema)
  /\ \A row \in embeddings : row.embedding.type = schema.embedding
  /\ \A row \in embeddings :
       \E read \in getEmbeddingsByProject(embeddings, row.projectId) :
         read.filePath = row.filePath /\ read.embedding = Embed(row.content)

\* C22: initializeSchema run again on an initialized store, whatever the
\* vector extension's availability and whichever of its statements fails,
\* leaves the set of tables and the type of embeddings.embedding as they
\* were, and every write and read uses the representation of that type.
C22_InitializeIsIdempotent ==
  [][C22_RerunChangesNothing]_vars /\ [](C22_RepresentationMatches)

\* a vector store initialized again when the extension was no longer
\* available, holding a row written as a vector
C22_Witness ==
  /\ schema.inits = 2
  /\ Initialized(schema)
  /\ schema.embedding = "vector"
  /\ schema.check = "absent"
  /\ \E row \in embeddings : row.embedding.type = "vector"

-----------------------------------------------------------------------------
(* C23 *)

\* the request had a query and neither the embedding call nor the search threw
SearchReturned(out) == out.called /\ out.query # "" /\ ~out.threw

\* C23: a request to POST /api/search with a query, whose search returned,
\* is answered 404 with an empty result list exactly when the search
\* returned zero rows, and otherwise 200 with one result per returned row
\* in the same order, count the number of rows, and no embedding in any
\* result object.
C23_SearchResponse ==
  SearchReturned(searchOut) =>
    LET rows == searchOut.results
        response == searchOut.response
    IN /\ response.status \in {200, 404}
       /\ response.status = 404 <=> rows = <<>>
       /\ response.status = 404 => response.results = <<>>
       /\ response.status = 200 =>
            /\ Len(response.results) = Len(rows)
            /\ response.count = Len(rows)
            /\ \A i \in 1..Len(rows) :
                 /\ response.results[i].projectId = rows[i].projectId
                 /\ response.results[i].filePath = rows[i].filePath
                 /\ response.results[i].content = rows[i].content
                 /\ response.results[i].commitId = rows[i].commitId
                 /\ "embedding" \notin DOMAIN response.results[i]

\* a search that returned two rows and was answered 200
C23_Witness ==
  /\ SearchReturned(searchOut)
  /\ Len(searchOut.results) = 2
  /\ searchOut.response.status = 200
  /\ searchOut.results[1].filePath # searchOut.results[2].filePath

-----------------------------------------------------------------------------
(* C24 *)

\* a request to POST /api/repositories/embed without repositoryUrl
MissingRepositoryUrl(r) ==
  pc[r] # "idle" /\ IsClone(event[r]) /\ event[r].repositoryUrl = ""

\* a request to POST /api/search without query
MissingQuery(out) == out.called /\ out.query = ""

\* C24: a request without its required field (query of POST /api/search,
\* repositoryUrl of POST /api/repositories/embed) is answered 400 and that
\* answer is all it does: no embedding call, no storage query, no clone,
\* no background run; and 400 is the answer of no other request.
C24_MissingFieldIsRejected ==
  /\ MissingQuery(searchOut) =>
       /\ searchOut.response.status = 400
       /\ searchOut.calls = <<>>
       /\ searchOut.results = <<>>
  /\ searchOut.called /\ searchOut.response.status = 400 =>
       MissingQuery(searchOut)
  /\ \A r \in Runs :
       /\ MissingRepositoryUrl(r) =>
            pc[r] = "rejected" /\ trace[r] = <<"400">>
       /\ pc[r] # "idle" /\ IsClone(event[r]) /\ InTrace(r, "400") =>
            MissingRepositoryUrl(r)

\* both requests were made without the field, next to nothing stored
C24_Witness ==
  /\ MissingQuery(searchOut)
  /\ MissingRepositoryUrl(1)
  /\ pc[1] = "rejected"

-----------------------------------------------------------------------------
(* C25 *)

\* the number of saveBatch calls, failed ones included, in the history of a
\* run
BatchCalls(r) == Cardinality({i \in 1..Len(trace[r]) : trace[r][i] = "saveBatch"})

\* run r appends its batch row in this step, as its first batch and after
\* its saveEmbeddings returned: nothing to save, or the COMMIT as the call
\* before, and no ROLLBACK
AddsBatch(r) ==
  /\ trace'[r] = Append(trace[r], "saveBatch")
  /\ BatchCalls(r) = 0
  /\ ~InTrace(r, "ROLLBACK")
  /\ \/ embs[r] = <<>>
     \/ trace[r] # <<>> /\ trace[r][Len(trace[r])] = "COMMIT"

C25_BatchStep ==
  \/ batches' = batches
  \/ /\ Len(batches') = Len(batches) + 1
     /\ SubSeq(batches', 1, Len(batches)) = batches
     /\ \E r \in Runs : AddsBatch(r)

C25_OnePerRun ==
  /\ \A r \in Runs : BatchCalls(r) <= 1
  /\ Len(batches) <= Cardinality({r \in Runs : BatchCalls(r) = 1})

\* C25: every step leaves the batches relation as it is or appends one row
\* to it, leaving the rows it had; the row is appended by a run that has
\* appended none before and whose saveEmbeddings returned without error;
\* no run appends two.
C25_BatchesAppendOnly == [][C25_BatchStep]_vars /\ [](C25_OnePerRun)

\* two runs of the same project and commit appended one row each
C25_Witness ==
  /\ Len(batches) = 2
  /\ batches[1].projectId = batches[2].projectId
  /\ batches[1].commitId = batches[2].commitId
  /\ \A r \in Runs : BatchCalls(r) = 1 /\ InTrace(r, "COMMIT")

-----------------------------------------------------------------------------
(* C26 *)

Keys(table) == {<<row.projectId, row.filePath>> : row \in table}

ProjectIds(table) == {row.projectId : row \in table}

\* the row is rewritten in this step only by a run that saves its path
KeptOrRewritten(row) ==
  \E next \in KeyRows(embeddings', row.projectId, row.filePath) :
    \/ next = row
    \/ \E r \in Runs : \E i \in 1..Len(embs[r]) :
         /\ embs[r][i].projectId = row.projectId
         /\ embs[r][i].filePath = row.filePath
         /\ next.commitId = embs[r][i].commitId

C26_NothingDeleted ==
  /\ Keys(embeddings) \subseteq Keys(embeddings')
  /\ ProjectIds(projects) \subseteq ProjectIds(projects')
  /\ \A row \in embeddings : KeptOrRewritten(row)

\* C26: no step removes a (projectId, filePath) key from embeddings or a
\* projectId from projects, and a stored row changes only when a run saves
\* its path, so the row of a path that a later commit no longer has stays
\* with the commitId it had.
C26_RowsAreNeverDeleted == [][C26_NothingDeleted]_vars

\* c2 has no c.ts: a run for c2 completed after one for c1, and the row of
\* c.ts is still stored with c1 next to the row of a.py with c2
C26_Witness ==
  /\ \E r \in Runs :
       /\ pc[r] = "completed"
       /\ IsWebhookRun(r)
       /\ commitId(event[r]) = "c2"
       /\ \A i \in 1..Len(files[r]) : files[r][i].path # PathC
  /\ StoredCommit(1) = [commit |-> "c2"]
  /\ \E row \in KeyRows(embeddings, 1, PathC) : row.commitId = "c1"
  /\ \E row \in KeyRows(embeddings, 1, PathA) : row.commitId = "c2"

-----------------------------------------------------------------------------
(* C27 *)

Settled(loop, k) == loop.status[k] \in {"ok", "failed", "skipped"}

\* C27: in a call of generateEmbeddings at most 5 embedding calls, and in a
\* call of getAllFiles at most 10 content fetches, are in flight; the calls
\* in flight belong to the current batch, every call of the batches before
\* it has finished (succeeded or failed), and no call of a later batch has
\* started.
C27_BatchesAreSequential ==
  /\ par.kind = "embed" => Cardinality(InFlight(par)) <= 5
  /\ par.kind = "fetch" => Cardinality(InFlight(par)) <= 10
  /\ InFlight(par) \subseteq Batch(par)
  /\ \A k \in 1..par.n :
       /\ k <= par.i => Settled(par, k)
       /\ k > par.i + BatchSizeOf(par) => par.status[k] = "pending"

\* the second batch of generateEmbeddings is in flight after a first batch
\* of five in which a call failed and a file was skipped
C27_Witness ==
  /\ par.kind = "embed"
  /\ par.n = 6
  /\ par.i = 5
  /\ par.status[6] = "inflight"
  /\ \E k \in 1..5 : par.status[k] = "failed"
  /\ \E k \in 1..5 : par.status[k] = "skipped"
  /\ \E k \in 1..5 : par.status[k] = "ok"

-----------------------------------------------------------------------------
(* C28 *)

RECURSIVE ConcatContents(_)
ConcatContents(chunks) ==
  IF chunks = <<>> THEN <<>>
  ELSE Head(chunks).content \o ConcatContents(Tail(chunks))

\* C28: for a file whose content is longer than maxChunkSize, every chunk
\* chunkCodeFile returns has at most maxChunkSize characters, the chunk
\* paths are pairwise distinct and are the file's path with the chunk
\* index, the chunks' lines in index order are the lines of the content in
\* their order, and a content of 20,000 characters gives 3 chunks.
C28_ChunksFit ==
  chunkOut.called /\ ContentLength(chunkOut.file.content) > maxChunkSize =>
    LET chunks == chunkOut.result
    IN /\ \A i \in 1..Len(chunks) :
            /\ ChunkLength(chunks[i].content) <= maxChunkSize
            /\ chunks[i].path = <<chunkOut.file.path, "#chunk", i - 1>>
       /\ \A i, j \in 1..Len(chunks) :
            i # j => chunks[i].path # chunks[j].path
       /\ ConcatContents(chunks) = chunkOut.file.content
       /\ ContentLength(chunkOut.file.content) = 20000 => Len(chunks) = 3

-----------------------------------------------------------------------------
(* C29 *)

\* no null byte, control characters at most 10% of the length, length at
\* most the ceiling of 100000
WithinLimits(content) ==
  /\ ~content.nul
  /\ content.ctrl * 10 <= content.len
  /\ content.len <= 100000

\* the result of the call has the embedding of file i
Embedded(i) ==
  \E k \in 1..Len(genOut.result) :
    /\ genOut.result[k].filePath = genIn.files[i].path
    /\ genOut.result[k].content = genIn.files[i].content

\* an embedding call is issued for file i, and its embedding is in the
\* result unless the call failed
CallIssued(i) ==
  /\ i \in EmbedCalls(genIn.files)
  /\ i \notin genIn.apiFail => Embedded(i)

\* C29 as stated: every content within the three limits is eligible and an
\* embedding call is issued for it.
C29_WithinLimitsIsEligible ==
  genOut.called =>
    \A i \in 1..Len(genIn.files) :
      WithinLimits(genIn.files[i].content) => CallIssued(i)

\* C29: every content that is not empty and is within the three limits is
\* eligible, and an embedding call is issued for it.
C29_NonEmptyWithinLimitsIsEligible ==
  genOut.called =>
    \A i \in 1..Len(genIn.files) :
      genIn.files[i].content.len > 0 /\ WithinLimits(genIn.files[i].content)
        => CallIssued(i)

\* a content of exactly 100000 characters, exactly a tenth of them control
\* characters, was embedded
C29_Witness ==
  /\ genOut.called
  /\ \E i \in 1..Len(genIn.files) :
       /\ genIn.files[i].content.len = 100000
       /\ genIn.files[i].content.ctrl = 10000
       /\ ~genIn.files[i].content.nul
       /\ Embedded(i)

-----------------------------------------------------------------------------
(* C30 *)

\* the rows the relation holds for the path of file i
StoredForFile(i) ==
  {row \in embeddings : row.filePath = genIn.files[i].path}

\* C30: a content with a null byte is binary whatever its length and its
\* share of other characters: no embedding call is issued for it, its
\* embedding is not in the result, and the run stores no row for its path.
C30_NullByteIsNeverEmbedded ==
  \A i \in 1..Len(genIn.files) :
    genIn.files[i].content.nul =>
      /\ isBinaryContent(genIn.files[i].content)
      /\ i \notin EmbedCalls(genIn.files)
      /\ genOut.called => ~Embedded(i)
      /\ StoredForFile(i) = {}

\* the run has committed the row of another file, and wrote none for a file
\* whose only character is the null byte
C30_Witness ==
  /\ pc[1] = "returned"
  /\ embeddings # {}
  /\ \E i \in 1..Len(genIn.files) :
       /\ genIn.files[i].content.nul
       /\ genIn.files[i].content.len = 1
       /\ genIn.files[i].content.ctrl = 0
       /\ StoredForFile(i) = {}

-----------------------------------------------------------------------------
(* C31 *)

\* the values of an extension table and the default tag
Tags(table, default) == {table[ext] : ext \in DOMAIN table} \cup {default}

\* C31: for every file path, each classifier returns a value of its
\* extension table or its default tag (text for the provider adapter,
\* plaintext for the local-repository service), and the same path yields the
\* same tag again.
C31_TagFromTable ==
  langOut.called =>
    /\ langOut.provider \in Tags(languageMap, "text")
    /\ langOut.local \in Tags(localLanguageMap, "plaintext")
    /\ langOut.again = langOut.provider

-----------------------------------------------------------------------------
(* C32 *)

IsCloneRun(r) == pc[r] # "idle" /\ IsClone(event[r])

\* how often run r issued the call
CountOps(r, op) == Cardinality({i \in 1..Len(trace[r]) : trace[r][i] = op})

\* the rows of batches with the commit identifier
BatchesOf(table, commit) ==
  {i \in 1..Len(table) : table[i].commitId = commit}

\* run r takes the last step of a clone run that met no error
CloneCompletes(r) ==
  /\ IsCloneRun(r)
  /\ pc[r] = "cloneUpdateProjectMetadata"
  /\ pc'[r] = "completed"

C32_FreshRun(r) ==
  LET commit == event[r].commitId
  IN /\ files[r] # <<>>
     /\ commit # ""
     /\ commit # meta[r].lastProcessedCommit
     /\ \A q \in Runs \ {r} : IsCloneRun(q) => event[q].commitId # commit
     /\ CountOps(r, "generateEmbedding") = Cardinality(EmbedCalls(files[r]))
     /\ CountOps(r, "saveBatch") = 1
     /\ \E i \in BatchesOf(batches, commit) :
          /\ batches[i].projectId = event[r].project_id
          /\ BatchesOf(batches, commit) = {i}
     /\ StoredCommit(event[r].project_id)' = [commit |-> commit]

\* C32: a clone-based run that found files and met no error has generated a
\* commit identifier no earlier run used, issued the embedding call of every
\* eligible file, written a batch row of its own, and sets
\* lastProcessedCommit to its identifier, whatever the stored one was; no
\* clone-based run is skipped as already processed.
C32_CloneRunsAreNeverDeduplicated ==
  [][\A r \in Runs :
       /\ CloneCompletes(r) => C32_FreshRun(r)
       /\ IsCloneRun(r) => pc[r] # "skippedProcessed"]_vars

\* the second clone-based run of an unchanged repository has completed after
\* the first, with a batch row and an identifier of its own
C32_Witness ==
  /\ IsCloneRun(1) /\ IsCloneRun(2)
  /\ pc[1] = "completed" /\ pc[2] = "completed"
  /\ event[1].repositoryUrl = event[2].repositoryUrl
  /\ files[1] = files[2]
  /\ meta[2].lastProcessedCommit = event[2].commitId
  /\ Len(batches) = 2
  /\ batches[1].commitId = event[1].commitId
  /\ batches[2].commitId = event[2].commitId
  /\ StoredCommit(event[2].project_id) = [commit |-> event[2].commitId]

-----------------------------------------------------------------------------
(* C33 *)

\* the request of run r was answered 401 and nothing was called for it
Rejected(r) ==
  /\ pc[r] = "unauthorized"
  /\ trace[r] = <<"401">>
  /\ meta[r] = Null /\ files[r] = <<>> /\ embs[r] = <<>>

C33_OnlyTheSecretPasses ==
  auth.secret # "" =>
    \A r \in Runs :
      pc[r] # "idle" =>
        IF auth.token[r] = auth.secret THEN pc[r] # "unauthorized"
        ELSE Rejected(r)

C33_RejectionWritesNothing ==
  \A r \in Runs :
    pc[r] = "idle" /\ pc'[r] = "unauthorized" => UNCHANGED dbVars

\* C33: with a webhook secret configured, a request to the webhook route
\* starts the pipeline only if its X-Gitlab-Token equals the secret; a request
\* with a missing or different token is answered 401, and no metadata lookup,
\* provider call, embedding call or storage write is made for it.
C33_WebhookNeedsTheSecret ==
  [](C33_OnlyTheSecretPasses) /\ [][C33_RejectionWritesNothing]_vars

\* with a secret configured, a request with a wrong token was rejected and a
\* later one with the secret was processed to the end
C33_Witness ==
  /\ auth.secret = "s3cret"
  /\ auth.token[1] = "wrong" /\ Rejected(1)
  /\ auth.token[2] = "s3cret" /\ pc[2] = "completed"
  /\ projects # {}

-----------------------------------------------------------------------------
(* C34 *)

HasBatch(projectId, commit) ==
  \E i \in 1..Len(batches) :
    batches[i].projectId = projectId /\ batches[i].commitId = commit

\* C34: in every reachable state, each projects row with a non-empty
\* lastProcessedCommit has a batches row with its projectId and that commit.
C34_ProcessedCommitHasBatch ==
  \A row \in projects :
    row.lastProcessedCommit # "" =>
      HasBatch(row.projectId, row.lastProcessedCommit)

\* a webhook run and a clone-based run have both recorded their commit
C34_Witness ==
  /\ \E r \in Runs : IsWebhookRun(r) /\ pc[r] = "completed"
  /\ \E r \in Runs : IsCloneRun(r) /\ pc[r] = "completed"
  /\ \E row \in projects : row.lastProcessedCommit \in Commits
  /\ \E row \in projects :
       /\ row.lastProcessedCommit \notin Commits \cup {""}
       /\ HasBatch(row.projectId, row.lastProcessedCommit)

-----------------------------------------------------------------------------
(* C35 *)

\* C35: every embedding row stored with commitId C holds the content its
\* file had at commit C in the repository, for push runs and for
\* merge-request runs, also when the source branch receives a further commit
\* between the event and the fetch.
C35_ContentIsOfItsCommit ==
  \A row \in embeddings :
    row.commitId \in Commits =>
      row.content = RepoContent(row.commitId, row.filePath)

-----------------------------------------------------------------------------
(* C36 *)

SameKey(row, e) == row.projectId = e.projectId /\ row.filePath = e.filePath

\* the row after an upsert of e hit it: six columns of e, the rest of row
Replaced(row, e) ==
  [projectId |-> row.projectId, repositoryUrl |-> row.repositoryUrl,
   filePath |-> row.filePath, content |-> e.content,
   embedding |-> EmbeddingParam(e.embedding), language |-> e.language,
   commitId |-> e.commitId, branch |-> e.branch,
   createdAt |-> row.createdAt, updatedAt |-> e.updatedAt]

\* what the step that wrote the list es made of the rows it found
C36_Frame(es) ==
  \A row \in embeddings :
    IF \E i \in 1..Len(es) : SameKey(row, es[i])
      THEN \E i \in 1..Len(es) :
             /\ SameKey(row, es[i]) /\ LastForKey(es, i)
             /\ KeyRows(embeddings', row.projectId, row.filePath)
                  = {Replaced(row, es[i])}
      ELSE row \in embeddings'

C36_UpsertStep ==
  /\ \A e \in StoreRows : saveEmbedding(e) => C36_Frame(<<e>>)
  /\ \A r \in Runs :
       pc[r] = "upsert" /\ pc'[r] = "returned" => C36_Frame(embs[r])

\* C36: an upsert that hits an existing (projectId, filePath) row replaces
\* content, embedding, language, commit_id, branch and updated_at, leaves
\* the row's repository_url and created_at as they were, and leaves every
\* row with another key unchanged.
C36_UpsertReplacesSixColumns == [][C36_UpsertStep]_vars

\* a row written with one repository URL was hit by an upsert carrying
\* another: it has the new commit and the old URL and creation time, next to
\* a row with another key
C36_Witness ==
  /\ \E row \in embeddings :
       /\ SameKey(row, StoreRow(1, PathA, 2))
       /\ row = Replaced(StoreRow(1, PathA, 1), StoreRow(1, PathA, 2))
       /\ row.repositoryUrl # StoreRow(1, PathA, 2).repositoryUrl
  /\ \E row \in embeddings : row.filePath = PathC

-----------------------------------------------------------------------------
(* C37 *)

LastOp(r) == trace[r][Len(trace[r])]

\* the webhook run r has ended before its saveEmbeddings step: skipped as
\* already processed, skipped without files, or failed in the project lookup
\* or the file fetch
EndedBeforeSave(r) ==
  /\ IsWebhookRun(r)
  /\ \/ pc[r] \in {"skippedProcessed", "skippedNoFiles"}
     \/ /\ pc[r] = "failed"
        /\ LastOp(r) \in {"getProjectMetadata", "getProject", "getRepositoryTree"}

\* such a run has issued no storage write
C37_NoWriteIssued ==
  \A r \in Runs :
    EndedBeforeSave(r) =>
      \A i \in 1..Len(trace[r]) : trace[r][i] \notin StorageWriteOps

\* a project whose every event so far ended this way has no projects row
C37_NoProjectRow ==
  \A p \in Projects :
    (/\ \E r \in Runs : IsWebhookRun(r) /\ event[r].project_id = p
     /\ \A r \in Runs :
          (IsWebhookRun(r) /\ event[r].project_id = p) => EndedBeforeSave(r))
      => SelectProject(projects, p) = Null

\* no step of a run up to such an end changes a relation
C37_StepsWriteNothing ==
  \A r \in Runs :
    (/\ pc'[r] # pc[r]
     /\ pc'[r] \in {"getProjectMetadata", "getProject", "getAllFiles",
                    "generateEmbeddings", "skippedProcessed", "skippedNoFiles"}
          \/ EndedBeforeSave(r)')
      => UNCHANGED dbVars

\* C37: a webhook run that ends before its saveEmbeddings step (skipped as
\* already processed, skipped without files, or failed in the project lookup
\* or the file fetch) leaves the three relations unchanged; a first event
\* for an unseen project that ends this way leaves no projects row for it.
C37_EarlyEndWritesNothing ==
  [](C37_NoWriteIssued /\ C37_NoProjectRow) /\ [][C37_StepsWriteNothing]_vars

\* the first event of a project got the project details from the provider
\* and failed in the file fetch: the project has no row
C37_Witness ==
  /\ EndedBeforeSave(1)
  /\ pc[1] = "failed"
  /\ InTrace(1, "getProject")
  /\ LastOp(1) = "getRepositoryTree"
  /\ meta[1] # Null
  /\ pc[2] = "idle"
  /\ SelectProject(projects, event[1].project_id) = Null

-----------------------------------------------------------------------------
(* C38 *)

CloneTerminated(r) ==
  IsCloneRun(r) /\ pc[r] \in {"completed", "skippedNoFiles", "failed"}

\* C38: every clone-based run eventually removes the working copy it
\* created: once the run has terminated, by success, by the no-files exit or
\* by an error at any step, its temporary directory no longer exists.
C38_WorkingCopyIsRemoved ==
  \A r \in Runs :
    /\ (workdir[r] = "exists") ~> (workdir[r] = "removed")
    /\ [](CloneTerminated(r) => workdir[r] \in {"none", "removed"})

\* every run that created a working copy ends with the removal attempted:
\* the directory is gone or rmSync threw
C38_RemovalIsAttempted ==
  \A r \in Runs :
    /\ (workdir[r] = "exists") ~> (workdir[r] \in {"removed", "rmFailed"})
    /\ [](CloneTerminated(r) => workdir[r] # "exists")

-----------------------------------------------------------------------------
(* C39 *)

\* the webhook run r fetched files, all of them ineligible, and is past its
\* generateEmbeddings step
ZeroEmbeddingRun(r) ==
  /\ IsWebhookRun(r)
  /\ pc[r] \in {"saveEmbeddings", "saveBatch", "updateProjectMetadata",
                "completed"}
  /\ files[r] # <<>>
  /\ \A i \in 1..Len(files[r]) : Ineligible(files[r][i].content)

\* such a run holds no embedding and issues no statement on embeddings
C39_NoEmbeddingWrite ==
  \A r \in Runs :
    ZeroEmbeddingRun(r) =>
      /\ embs[r] = <<>>
      /\ \A i \in 1..Len(trace[r]) :
           trace[r][i] \notin {"generateEmbedding", "BEGIN", "upsert", "COMMIT",
                               "ROLLBACK"}

\* its steps leave embeddings unchanged, and its last step finds its batch
\* row and sets lastProcessedCommit to the commit of the event
C39_RunStep ==
  \A r \in Runs :
    (pc'[r] # pc[r] /\ ZeroEmbeddingRun(r)') =>
      /\ embeddings' = embeddings
      /\ pc'[r] = "completed" =>
           /\ CountOps(r, "saveBatch") = 1
           /\ HasBatch(event[r].project_id, commitId(event[r]))
           /\ StoredCommit(event[r].project_id)'
                = [commit |-> commitId(event[r])]

\* run q is a later delivery of the commit a completed zero-embedding run
\* recorded, and takes the step that follows its metadata lookup
LaterDelivery(r, q) ==
  /\ q # r
  /\ ZeroEmbeddingRun(r) /\ pc[r] = "completed"
  /\ IsWebhookRun(q)
  /\ event[q].project_id = event[r].project_id
  /\ commitId(event[q]) = commitId(event[r])
  /\ StoredCommit(event[q].project_id) = [commit |-> commitId(event[q])]
  /\ pc[q] = "getProjectMetadata"
  /\ pc'[q] \notin {"getProjectMetadata", "failed"}

C39_LaterDeliveryIsSkipped ==
  \A r, q \in Runs :
    LaterDelivery(r, q) => pc'[q] = "skippedProcessed" /\ dbVars' = dbVars

\* C39: a webhook run that fetched at least one file and produced no
\* embedding because all files are ineligible writes nothing to embeddings,
\* still writes a batch row and sets lastProcessedCommit to the commit of the
\* event, and a later delivery of the same commit is skipped by the gate.
C39_ZeroEmbeddingRunIsRecorded ==
  /\ [](C39_NoEmbeddingWrite)
  /\ [][C39_RunStep]_vars
  /\ [][C39_LaterDeliveryIsSkipped]_vars

\* the same, for later deliveries that are push events
C39_LaterPushIsSkipped ==
  /\ [](C39_NoEmbeddingWrite)
  /\ [][C39_RunStep]_vars
  /\ [][\A r, q \in Runs :
          (LaterDelivery(r, q) /\ IsPush(event[q]))
            => pc'[q] = "skippedProcessed" /\ dbVars' = dbVars]_vars

\* a zero-embedding run has completed and a later push of its commit was
\* skipped
C39_PushWitness ==
  /\ ZeroEmbeddingRun(1) /\ pc[1] = "completed"
  /\ embeddings = {}
  /\ HasBatch(event[1].project_id, commitId(event[1]))
  /\ IsWebhookRun(2) /\ IsPush(event[2])
  /\ event[2].after = commitId(event[1])
  /\ pc[2] = "skippedProcessed"

====
